---- MODULE Spec2Model ----
(***************************************************************************)
(* A model of mteor's automated trader (src/mteor/trader.py) and of the    *)
(* betting system it sizes orders with (src/mteor/bet.py).                 *)
(*                                                                         *)
(* AutoTrader.invoke loops for ever over the symbol list; for each symbol  *)
(* it runs the cycle refresh_mt5_caches(); make_decision() up to           *)
(* retry_count + 1 times.  Every call of the MetaTrader5 collaborator is   *)
(* one step of the model: it returns a value drawn from a small set or it  *)
(* fails, and the object's fields keep what the last successful read put   *)
(* there.                                                                  *)
(*                                                                         *)
(* Units.  Python floats are modelled by exact integers:                   *)
(*   money (equity, margin_free, margins)   in halves of a currency unit,  *)
(*   volumes                                in hundredths of a lot,        *)
(*   prices                                 in points (10^-digits),        *)
(*   ratios                                 in percent,                    *)
(*   order limits (sl, tp of an opening order) in hundredths of a point.   *)
(* Floating-point rounding error is not modelled.                          *)
(***************************************************************************)
EXTENDS Integers, Sequences, FiniteSets, TLC

VARIABLES
    cfg,              \* constructor arguments (immutable after __init__)
    symbol,           \* self.symbol
    si,               \* position of the for-loop over self.symbols (1-based)
    r,                \* the retry loop's variable r
    pc,               \* where the control is
    warned,           \* warnings logged by the retry loop for the current symbol
    account_info,     \* self.account_info
    symbol_info,      \* self.symbol_info
    symbol_info_tick, \* self.symbol_info_tick
    positions,        \* self.positions
    min_margins,      \* self.min_margins
    history_deals,    \* self.history_deals
    unit_volume,      \* self.unit_volume
    unit_margin,      \* self.unit_margin
    avail_volume,     \* self.avail_volume
    position_volumes, \* self.position_volumes
    position_side,    \* self.position_side
    trend_side,       \* determine_sig_state: trend_side
    rows,             \* determine_sig_state: df_tick.shape[0]
    sig_act,          \* determine_sig_state: sig['act']
    seen,             \* the position_side determine_sig_state started with
    gate,             \* the branch of the if-chain that decided (1..11, 0: none yet)
    act,              \* st['act']
    state,            \* st['state'] (its kind)
    new_volume,       \* make_decision: new_volume
    reqs,             \* the order requests of this attempt, in order
    error,            \* the exception that ended this attempt, if any
    bpc,              \* where the caller of the betting system is
    strategy_arg,     \* BettingSystem(strategy=...): the name, as characters
    bs_strategy,      \* betting_system.strategy
    bs_strict,        \* betting_system.strict
    bet_call,         \* the arguments of the call of calculate_volume_by_pl
    bet_volume,       \* what that call returned
    order_limits      \* what a call of _determine_order_limits returned

vars == << cfg, symbol, si, r, pc, warned, account_info, symbol_info,
           symbol_info_tick, positions, min_margins, history_deals,
           unit_volume, unit_margin, avail_volume, position_volumes,
           position_side, trend_side, rows, sig_act, seen, gate, act, state,
           new_volume, reqs, error, bpc, strategy_arg, bs_strategy,
           bs_strict, bet_call, bet_volume, order_limits >>

loopVars == << symbol, si, r, warned >>
cacheVars == << account_info, symbol_info, symbol_info_tick, positions,
                min_margins, history_deals, unit_volume, unit_margin,
                avail_volume, position_volumes, position_side >>
localVars == << trend_side, rows, sig_act, seen, gate, act, state,
                new_volume, reqs >>
betVars == << bpc, strategy_arg, bs_strategy, bs_strict, bet_call, bet_volume >>
callVars == << betVars, order_limits >>
traderVars == << cfg, loopVars, pc, cacheVars, localVars, error >>

None == "none"

\* Constructor arguments the decision reads.
preserved_margin_pct == cfg.preserved_margin_pct
lrr_ema_span == cfg.lrr_ema_span
sr_ema_span == cfg.sr_ema_span
stop_loss_limit_pct == cfg.stop_loss_limit_pct
take_profit_limit_pct == cfg.take_profit_limit_pct

-----------------------------------------------------------------------------
(* Bounds of the model and the values the collaborator may return.         *)

MaxPositions == 2

Min(a, b) == IF a <= b THEN a ELSE b
Max(a, b) == IF a >= b THEN a ELSE b
Abs(a) == IF a < 0 THEN -a ELSE a

SeqsUpTo(S, n) == UNION { [1..k -> S] : k \in 0..n }

Symbols == << "EURUSD", "USDJPY" >>

\* Mt5.account_info(): equity and margin_free, in halves of a unit.
AccountInfos ==
    { [equity |-> 0, margin_free |-> 4], [equity |-> 1, margin_free |-> 4],
      [equity |-> 2, margin_free |-> 4], [equity |-> 4, margin_free |-> 2],
      [equity |-> 4, margin_free |-> 4] }

\* Mt5.symbol_info(s): the symbol's minimum volume.
SymbolInfoOf(s) == [volume_min |-> IF s = "EURUSD" THEN 1 ELSE 2]

\* Mt5.symbol_info_tick(s)
Ticks == { [bid |-> 100, ask |-> 100], [bid |-> 99, ask |-> 101] }

\* Mt5.positions_get(symbol=s): a tuple of positions; ticket = index.
PositionValues ==
    { [type |-> "BUY", volume |-> 1, sl |-> 0, tp |-> 110],
      [type |-> "SELL", volume |-> 1, sl |-> 101, tp |-> 90] }
PositionTuples == SeqsUpTo(PositionValues, MaxPositions)

\* Mt5.order_calc_margin(...) for the symbol's volume_min, at the ask and bid.
MinMarginsOf(s) ==
    IF s = "EURUSD" THEN [ask |-> 2, bid |-> 2] ELSE [ask |-> 1, bid |-> 1]

\* Mt5.history_deals_get(...) for the symbol
DealHistoryOf(s) ==
    IF s = "EURUSD" THEN << >>
    ELSE << [entry |-> 0, type |-> "BUY", volume |-> 1, profit |-> 1],
            [entry |-> 1, type |-> "SELL", volume |-> 2, profit |-> -1] >>

\* df_tick.shape[0] of the fetched tick window.
TickRowValues == {0, 4, 5}

Sides == {"long", "short"}

Strategies == { "Martingale", "Paroli", "d'Alembert", "Pyramid",
                "Oscar's grind", "Constant" }

\* The constructor arguments the model explores.
Configs ==
    { [ unit_margin_pct |-> 0, unit_volume |-> 3, day_trend_suppressor |-> 0,
        dry_run |-> FALSE, betting_strategy |-> "Martingale",
        preserved_margin_pct |-> 50, lrr_ema_span |-> 1, sr_ema_span |-> 2,
        stop_loss_limit_pct |-> 1, take_profit_limit_pct |-> 1 ],
      [ unit_margin_pct |-> 50, unit_volume |-> 1, day_trend_suppressor |-> 30,
        dry_run |-> TRUE, betting_strategy |-> "Constant",
        preserved_margin_pct |-> 1, lrr_ema_span |-> 2, sr_ema_span |-> 1,
        stop_loss_limit_pct |-> 1, take_profit_limit_pct |-> 1 ] }

\* Arguments with their default values.
retry_count == 1
max_spread_pct == 1
trailing_stop_limit_pct == 1

-----------------------------------------------------------------------------
(* BettingSystem (src/mteor/bet.py).  won_last is "won", "lost" or None.   *)

\* BettingSystem.__init__: strategy names are strings; the model writes a
\* string as the sequence of its characters, so that lower-casing and the
\* removal of characters are computed.
UpperCase ==
    << "A", "B", "C", "D", "E", "F", "G", "H", "I", "J", "K", "L", "M",
       "N", "O", "P", "Q", "R", "S", "T", "U", "V", "W", "X", "Y", "Z" >>
LowerCase ==
    << "a", "b", "c", "d", "e", "f", "g", "h", "i", "j", "k", "l", "m",
       "n", "o", "p", "q", "r", "s", "t", "u", "v", "w", "x", "y", "z" >>

\* str.lower() on one character
Lower(ch) ==
    IF \E i \in DOMAIN UpperCase : UpperCase[i] = ch
    THEN LowerCase[CHOOSE i \in DOMAIN UpperCase : UpperCase[i] = ch]
    ELSE ch

IsKept(ch) == ch \notin {"'", " "}

\* A variant that keeps the spaces.
Normalise_KeepingSpaces(name) ==
    SelectSeq([i \in DOMAIN name |-> Lower(name[i])], LAMBDA ch : ch # "'")

\* name.lower().replace("'", '').replace(' ', '')
Normalise(name) == SelectSeq([i \in DOMAIN name |-> Lower(name[i])], IsKept)

\* The list `strategies` of the constructor, in its order.
StrategyList ==
    << "Martingale", "Paroli", "d'Alembert", "Pyramid", "Oscar's grind",
       "Constant" >>

\* The characters of a name of the list.
Spelling(s) ==
    IF s = "Martingale"
    THEN << "M", "a", "r", "t", "i", "n", "g", "a", "l", "e" >>
    ELSE IF s = "Paroli"
    THEN << "P", "a", "r", "o", "l", "i" >>
    ELSE IF s = "d'Alembert"
    THEN << "d", "'", "A", "l", "e", "m", "b", "e", "r", "t" >>
    ELSE IF s = "Pyramid"
    THEN << "P", "y", "r", "a", "m", "i", "d" >>
    ELSE IF s = "Oscar's grind"
    THEN << "O", "s", "c", "a", "r", "'", "s", " ", "g", "r", "i", "n", "d" >>
    ELSE << "C", "o", "n", "s", "t", "a", "n", "t" >>

IsMatch(name, s) == Normalise(name) = Normalise(Spelling(s))

\* matched_strategy
MatchedStrategy(name) == SelectSeq(StrategyList, LAMBDA s : IsMatch(name, s))

\* The names given to the constructor.
StrategyArgs ==
    { << "M", "a", "r", "t", "i", "n", "g", "a", "l", "e" >>,
      << "m", "a", "r", "t", "i", "n", "g", "a", "l", "e" >>,
      << "P", "A", "R", "O", "L", "I" >>,
      << "d", "'", "A", "l", "e", "m", "b", "e", "r", "t" >>,
      << "d", "a", "l", "e", "m", "b", "e", "r", "t" >>,
      << "D", " ", "A", "L", "E", "M", "B", "E", "R", "T" >>,
      << "P", "y", "r", "a", "m", "i", "d" >>,
      << "p", "y", "r", "a", " ", "m", "i", "d" >>,
      << "O", "s", "c", "a", "r", "'", "s", " ", "g", "r", "i", "n", "d" >>,
      << "o", "s", "c", "a", "r", "s", "g", "r", "i", "n", "d" >>,
      << "c", "o", "n", "s", "t", "a", "n", "t" >>,
      << " ", "C", "o", "n", "s", "t", "a", "n", "t", "'" >>,
      << >>,
      << "K", "e", "l", "l", "y" >>,
      << "M", "a", "r", "t", "i", "n", "g", "a", "l" >>,
      << "d", "-", "A", "l", "e", "m", "b", "e", "r", "t" >>,
      << "O", "s", "c", "a", "r", "_", "s", " ", "g", "r", "i", "n", "d" >>,
      << "C", "o", "n", "s", "t", "a", "n", "t", "2" >> }

IsEntryDeal(d) == d.entry # 0 /\ d.type \in {"BUY", "SELL"}

EntryDeals(deals) == SelectSeq(deals, IsEntryDeal)

\* A variant that prefers the second value to the first.
FirstNonZero_SecondFirst(a, b, c) == IF b # 0 THEN b ELSE IF a # 0 THEN a ELSE c

\* `a or b or c` on numbers: the first that is not zero, else the last.
FirstNonZero(a, b, c) == IF a # 0 THEN a ELSE IF b # 0 THEN b ELSE c

RECURSIVE CumSum(_, _)
CumSum(pl, i) == IF i = 0 THEN 0 ELSE CumSum(pl, i - 1) + pl[i]

\* A variant for which a maximum reached before counts as well.
AllTimeHigh_WithTies(pl) ==
    \A i \in 1..(Len(pl) - 1) : CumSum(pl, i) <= CumSum(pl, Len(pl))

\* pl.cumsum().idxmax() == pl.index[-1]: idxmax is the first index of the
\* maximum, so the last cumulative sum must exceed every earlier one.
AllTimeHigh(pl) ==
    \A i \in 1..(Len(pl) - 1) : CumSum(pl, i) < CumSum(pl, Len(pl))

\* The strict backward walk over pl[:-1] reversed; acc = <<profit, loss>>.
RECURSIVE StrictWalk(_, _, _)
StrictWalk(pl, i, acc) ==
    IF i = 0 THEN acc
    ELSE IF pl[i] <= 0 THEN StrictWalk(pl, i - 1, << acc[1], acc[2] + Abs(pl[i]) >>)
    ELSE IF acc[2] = 0 THEN StrictWalk(pl, i - 1, << acc[1] + pl[i], acc[2] >>)
    ELSE acc

\* A variant for which a profit equal to the loss is a win.
WonLast_AtLeast(pl, strict) ==
    LET last == pl[Len(pl)] IN
    IF last < 0 THEN "lost"
    ELSE IF last > 0
         THEN IF strict
              THEN LET acc == StrictWalk(pl, Len(pl) - 1, << last, 0 >>)
                   IN  IF acc[1] >= acc[2] THEN "won" ELSE None
              ELSE "won"
         ELSE None

\* calculate_volume_by_pl: won_last ("lost" for False, "won" for True)
WonLast(pl, strict) ==
    LET last == pl[Len(pl)] IN
    IF last < 0 THEN "lost"
    ELSE IF last > 0
         THEN IF strict
              THEN LET acc == StrictWalk(pl, Len(pl) - 1, << last, 0 >>)
                   IN  IF acc[1] > acc[2] THEN "won" ELSE None
              ELSE "won"
         ELSE None

\* A variant whose Martingale adds a unit after a loss.
CalculateVolume_NoDoubling(strategy, unit, init, last_volume, won_last, all_time_high) ==
    IF won_last = None THEN FirstNonZero(last_volume, init, unit)
    ELSE IF strategy = "Martingale"
         THEN (IF won_last = "won" THEN unit ELSE last_volume + unit)
    ELSE IF strategy = "Paroli"
         THEN (IF won_last = "won" THEN last_volume * 2 ELSE unit)
    ELSE IF strategy = "d'Alembert"
         THEN (IF won_last = "won" THEN unit ELSE last_volume + unit)
    ELSE IF strategy = "Pyramid"
         THEN (IF won_last # "won" THEN last_volume + unit
               ELSE IF last_volume < unit THEN last_volume
               ELSE last_volume - unit)
    ELSE IF strategy = "Oscar's grind"
         THEN (IF all_time_high THEN (IF init # 0 THEN init ELSE unit)
               ELSE IF won_last = "won" THEN last_volume + unit
               ELSE last_volume)
    ELSE IF strategy = "Constant" THEN unit
    ELSE "ValueError"

\* A variant whose Pyramid keeps a last volume equal to the unit.
CalculateVolume_FloorAtUnit(strategy, unit, init, last_volume, won_last, all_time_high) ==
    IF won_last = None THEN FirstNonZero(last_volume, init, unit)
    ELSE IF strategy = "Martingale"
         THEN (IF won_last = "won" THEN unit ELSE last_volume * 2)
    ELSE IF strategy = "Paroli"
         THEN (IF won_last = "won" THEN last_volume * 2 ELSE unit)
    ELSE IF strategy = "d'Alembert"
         THEN (IF won_last = "won" THEN unit ELSE last_volume + unit)
    ELSE IF strategy = "Pyramid"
         THEN (IF won_last # "won" THEN last_volume + unit
               ELSE IF last_volume <= unit THEN last_volume
               ELSE last_volume - unit)
    ELSE IF strategy = "Oscar's grind"
         THEN (IF all_time_high THEN (IF init # 0 THEN init ELSE unit)
               ELSE IF won_last = "won" THEN last_volume + unit
               ELSE last_volume)
    ELSE IF strategy = "Constant" THEN unit
    ELSE "ValueError"

\* A variant whose Oscar's grind resets to the unit volume.
CalculateVolume_ResetToUnit(strategy, unit, init, last_volume, won_last, all_time_high) ==
    IF won_last = None THEN FirstNonZero(last_volume, init, unit)
    ELSE IF strategy = "Martingale"
         THEN (IF won_last = "won" THEN unit ELSE last_volume * 2)
    ELSE IF strategy = "Paroli"
         THEN (IF won_last = "won" THEN last_volume * 2 ELSE unit)
    ELSE IF strategy = "d'Alembert"
         THEN (IF won_last = "won" THEN unit ELSE last_volume + unit)
    ELSE IF strategy = "Pyramid"
         THEN (IF won_last # "won" THEN last_volume + unit
               ELSE IF last_volume < unit THEN last_volume
               ELSE last_volume - unit)
    ELSE IF strategy = "Oscar's grind"
         THEN (IF all_time_high THEN unit
               ELSE IF won_last = "won" THEN last_volume + unit
               ELSE last_volume)
    ELSE IF strategy = "Constant" THEN unit
    ELSE "ValueError"

\* BettingSystem._calculate_volume
CalculateVolume(strategy, unit, init, last_volume, won_last, all_time_high) ==
    IF won_last = None THEN FirstNonZero(last_volume, init, unit)
    ELSE IF strategy = "Martingale"
         THEN (IF won_last = "won" THEN unit ELSE last_volume * 2)
    ELSE IF strategy = "Paroli"
         THEN (IF won_last = "won" THEN last_volume * 2 ELSE unit)
    ELSE IF strategy = "d'Alembert"
         THEN (IF won_last = "won" THEN unit ELSE last_volume + unit)
    ELSE IF strategy = "Pyramid"
         THEN (IF won_last # "won" THEN last_volume + unit
               ELSE IF last_volume < unit THEN last_volume
               ELSE last_volume - unit)
    ELSE IF strategy = "Oscar's grind"
         THEN (IF all_time_high THEN (IF init # 0 THEN init ELSE unit)
               ELSE IF won_last = "won" THEN last_volume + unit
               ELSE last_volume)
    ELSE IF strategy = "Constant" THEN unit
    ELSE "ValueError"

CalculateVolumeByPl(strategy, strict, unit, deals, init) ==
    LET entry_deals == EntryDeals(deals)
        last_volume == IF entry_deals = << >> THEN 0
                       ELSE entry_deals[Len(entry_deals)].volume
        pl == [i \in 1..Len(entry_deals) |-> entry_deals[i].profit]
    IN  IF entry_deals = << >> THEN FirstNonZero(last_volume, init, unit)
        ELSE CalculateVolume(strategy, unit, init, last_volume,
                             WonLast(pl, strict), AllTimeHigh(pl))

-----------------------------------------------------------------------------
(* Mt5TraderCore: the pure parts of the cache refreshes.                   *)

RECURSIVE SumVolume(_, _, _)
SumVolume(ps, type, i) ==
    IF i = 0 THEN 0
    ELSE SumVolume(ps, type, i - 1) + (IF ps[i].type = type THEN ps[i].volume ELSE 0)

\* _refresh_position_cache: the aggregated volumes of a position tuple.
PositionVolumesOf(ps) ==
    [long |-> SumVolume(ps, "BUY", Len(ps)), short |-> SumVolume(ps, "SELL", Len(ps))]

\* _refresh_position_cache: the dominant side, None on a tie or no position.
PositionSideOf(ps) ==
    LET v == PositionVolumesOf(ps) IN
    IF v.long > v.short THEN "long"
    ELSE IF v.long < v.short THEN "short"
    ELSE None

\* _refresh_unit_margin_and_volume: floor(...) of the lot count of one unit.
UnitLot(c, acc, sym, mm, uv) ==
    IF c.unit_margin_pct # 0
    THEN (acc.equity * c.unit_margin_pct) \div (100 * mm.ask)
    ELSE uv \div sym.volume_min

UnitVolumeOf(c, acc, sym, mm, uv) ==
    IF c.unit_margin_pct # 0
    THEN sym.volume_min * UnitLot(c, acc, sym, mm, uv)
    ELSE uv

UnitMarginOf(c, acc, sym, mm, uv) == mm.ask * UnitLot(c, acc, sym, mm, uv)

\* avail_margin = max(margin_free - equity * preserved_margin_ratio, 0), in
\* hundredths of the money unit; avail_volume = floor(avail_margin / ask margin)
\* * volume_min.
AvailVolumeOf(acc, sym, mm) ==
    ( Max(100 * acc.margin_free - acc.equity * preserved_margin_pct, 0)
      \div (100 * mm.ask) ) * sym.volume_min

\* int(x) of a non-negative amount held in halves of a unit.
IntOf(x) == x \div 2

-----------------------------------------------------------------------------
(* The state after AutoTrader.__init__ and the loop of AutoTrader.invoke.  *)

ResetLocals ==
    /\ trend_side' = None
    /\ rows' = -1
    /\ sig_act' = None
    /\ seen' = None
    /\ gate' = 0
    /\ act' = None
    /\ state' = None
    /\ new_volume' = 0
    /\ reqs' = << >>

InitLoop == symbol = None /\ si = 0 /\ r = 0 /\ warned = 0

\* Mt5TraderCore.__init__: the cache fields
InitCaches ==
    /\ account_info = None
    /\ symbol_info = None
    /\ symbol_info_tick = None
    /\ positions = << >>
    /\ min_margins = None
    /\ history_deals = << >>
    /\ unit_volume = (IF cfg.unit_margin_pct # 0 THEN None ELSE cfg.unit_volume)
    /\ unit_margin = None
    /\ avail_volume = None
    /\ position_volumes = None
    /\ position_side = None

InitLocals ==
    /\ trend_side = None
    /\ rows = -1
    /\ sig_act = None
    /\ seen = None
    /\ gate = 0
    /\ act = None
    /\ state = None
    /\ new_volume = 0
    /\ reqs = << >>

\* No call of calculate_volume_by_pl is going on.
NoCall == [unit_volume |-> 0, init_volume |-> 0, history_deals |-> << >>]

\* Mt5TraderCore.__init__: BettingSystem(strategy=betting_strategy)
InitBettingSystem ==
    /\ bpc = "ready"
    /\ strategy_arg = Spelling(cfg.betting_strategy)
    /\ bs_strategy = MatchedStrategy(strategy_arg)[1]
    /\ bs_strict = TRUE
    /\ bet_call = NoCall
    /\ bet_volume = 0

Init ==
    /\ cfg \in Configs
    /\ pc = "pass"
    /\ InitLoop
    /\ InitCaches
    /\ InitLocals
    /\ error = None
    /\ InitBettingSystem
    /\ order_limits = None

\* A variant whose handler retries once too often.
RaiseMt5_OneMore ==
    /\ pc' = (IF r <= retry_count THEN "mt5error" ELSE "raised")
    /\ error' = "Mt5ResponseError"

\* An Mt5ResponseError leaves the cycle for the handler of invoke:
\* except Mt5ResponseError, with r = retry_count: raise e (out of invoke);
\* with r < retry_count the handler logs a warning (RetryOnError).
RaiseMt5 ==
    /\ pc' = (IF r < retry_count THEN "mt5error" ELSE "raised")
    /\ error' = "Mt5ResponseError"

\* Any other exception is not caught by invoke and ends the process.
RaiseZeroDivision ==
    /\ pc' = "crashed"
    /\ error' = "ZeroDivisionError"

\* while True: for s in self.symbols: self.symbol = s; for r in range(...)
StartPass ==
    /\ pc = "pass"
    /\ si' = 1
    /\ symbol' = Symbols[1]
    /\ r' = 0
    /\ warned' = 0
    /\ pc' = "account"
    /\ UNCHANGED << callVars, cfg, cacheVars, localVars, error >>

\* except Mt5ResponseError, r < retry_count: log a warning, next r.
RetryOnError ==
    /\ pc = "mt5error"
    /\ r < retry_count
    /\ r' = r + 1
    /\ warned' = warned + 1
    /\ pc' = "account"
    /\ error' = None
    /\ ResetLocals
    /\ UNCHANGED << callVars, cfg, symbol, si, cacheVars >>

\* A variant that keeps the attempt count for the next symbol.
Break_KeepingCount ==
    /\ pc = "returned"
    /\ ResetLocals
    /\ IF si < Len(Symbols)
       THEN /\ si' = si + 1
            /\ symbol' = Symbols[si + 1]
            /\ pc' = "account"
            /\ UNCHANGED << r, warned >>
       ELSE /\ pc' = "sleep"
            /\ UNCHANGED loopVars
    /\ UNCHANGED << callVars, cfg, cacheVars, error >>

\* A variant that sleeps after every symbol and then restarts the list.
Break_SleepingInside ==
    /\ pc = "returned"
    /\ ResetLocals
    /\ pc' = "sleep"
    /\ UNCHANGED << callVars, cfg, loopVars, cacheVars, error >>

\* else: break; then the next symbol of the list, or the sleep after the last.
Break ==
    /\ pc = "returned"
    /\ ResetLocals
    /\ IF si < Len(Symbols)
       THEN /\ si' = si + 1
            /\ symbol' = Symbols[si + 1]
            /\ r' = 0
            /\ warned' = 0
            /\ pc' = "account"
       ELSE /\ pc' = "sleep"
            /\ UNCHANGED loopVars
    /\ UNCHANGED << callVars, cfg, cacheVars, error >>

\* time.sleep(interval_seconds), then the while loop starts the list again.
Sleep ==
    /\ pc = "sleep"
    /\ pc' = "pass"
    /\ UNCHANGED << callVars, cfg, loopVars, cacheVars, localVars, error >>

-----------------------------------------------------------------------------
(* refresh_mt5_caches: one step per read of the collaborator.              *)

\* _refresh_account_info_cache
RefreshAccountInfo ==
    /\ pc = "account"
    /\ \/ /\ account_info' \in AccountInfos
          /\ pc' = "symbol_info"
          /\ UNCHANGED error
       \/ /\ account_info' = None
          /\ RaiseMt5
    /\ UNCHANGED << callVars, cfg, loopVars, symbol_info, symbol_info_tick, positions,
                    min_margins, history_deals, unit_volume, unit_margin,
                    avail_volume, position_volumes, position_side, localVars >>

\* A variant that keeps the symbol information read for the first symbol.
RefreshSymbolInfo_CachedOnce ==
    /\ pc = "symbol_info"
    /\ \/ /\ symbol_info' = SymbolInfoOf(Symbols[1])
          /\ pc' = "tick"
          /\ UNCHANGED error
       \/ /\ symbol_info' = None
          /\ RaiseMt5
    /\ UNCHANGED << callVars, cfg, loopVars, account_info, symbol_info_tick, positions,
                    min_margins, history_deals, unit_volume, unit_margin,
                    avail_volume, position_volumes, position_side, localVars >>

\* _refresh_symbol_info_cache
RefreshSymbolInfo ==
    /\ pc = "symbol_info"
    /\ \/ /\ symbol_info' = SymbolInfoOf(symbol)
          /\ pc' = "tick"
          /\ UNCHANGED error
       \/ /\ symbol_info' = None
          /\ RaiseMt5
    /\ UNCHANGED << callVars, cfg, loopVars, account_info, symbol_info_tick, positions,
                    min_margins, history_deals, unit_volume, unit_margin,
                    avail_volume, position_volumes, position_side, localVars >>

\* _refresh_symbol_info_tick_cache
RefreshSymbolInfoTick ==
    /\ pc = "tick"
    /\ \/ /\ symbol_info_tick' \in Ticks
          /\ pc' = "positions"
          /\ UNCHANGED error
       \/ /\ symbol_info_tick' = None
          /\ RaiseMt5
    /\ UNCHANGED << callVars, cfg, loopVars, account_info, symbol_info, positions,
                    min_margins, history_deals, unit_volume, unit_margin,
                    avail_volume, position_volumes, position_side, localVars >>

\* _refresh_position_cache: the three fields a successful read assigns.
SetPositions(ps) ==
    /\ positions' = ps
    /\ position_volumes' = PositionVolumesOf(ps)
    /\ position_side' = PositionSideOf(ps)

\* _refresh_position_cache: a result that is not a tuple.
FailPositions ==
    /\ positions' = None
    /\ UNCHANGED << position_volumes, position_side >>

RefreshPositions ==
    /\ pc = "positions"
    /\ \/ /\ \E ps \in PositionTuples : SetPositions(ps)
          /\ pc' = "margin"
          /\ UNCHANGED error
       \/ /\ FailPositions
          /\ RaiseMt5
    /\ UNCHANGED << callVars, cfg, loopVars, account_info, symbol_info, symbol_info_tick,
                    min_margins, history_deals, unit_volume, unit_margin,
                    avail_volume, localVars >>

\* _refresh_order_cache, then _refresh_margin_cache
RefreshOrdersAndMargin ==
    /\ pc = "margin"
    /\ \/ /\ min_margins' = MinMarginsOf(symbol)
          /\ pc' = "deals"
          /\ UNCHANGED error
       \/ /\ UNCHANGED min_margins
          /\ RaiseMt5
    /\ UNCHANGED << callVars, cfg, loopVars, account_info, symbol_info, symbol_info_tick,
                    positions, history_deals, unit_volume, unit_margin,
                    avail_volume, position_volumes, position_side, localVars >>

\* _refresh_unit_margin_and_volume: the three fields it assigns.
SetUnitMarginAndVolume(acc) ==
    /\ unit_volume' = UnitVolumeOf(cfg, acc, symbol_info, min_margins, unit_volume)
    /\ unit_margin' = UnitMarginOf(cfg, acc, symbol_info, min_margins, unit_volume)
    /\ avail_volume' = AvailVolumeOf(acc, symbol_info, min_margins)

\* _refresh_history_deal_cache, then _refresh_unit_margin_and_volume
RefreshDealsAndUnit ==
    /\ pc = "deals"
    /\ \/ /\ history_deals' = DealHistoryOf(symbol)
          /\ SetUnitMarginAndVolume(account_info)
          /\ pc' = "trend"
          /\ UNCHANGED error
       \/ /\ history_deals' = None
          /\ UNCHANGED << unit_volume, unit_margin, avail_volume >>
          /\ RaiseMt5
    /\ UNCHANGED << callVars, cfg, loopVars, account_info, symbol_info, symbol_info_tick,
                    positions, min_margins, position_volumes, position_side,
                    localVars >>

-----------------------------------------------------------------------------
(* AutoTrader.determine_sig_state.                                         *)

\* SignalDetector.detect(df_tick, position_side): the verdicts it can return.
\* An empty window gives NaN statistics and no verdict; closing is a verdict
\* only while a side is held.
DetectActs(n, side) ==
    IF n = 0 THEN {None}
    ELSE {"long", "short", None} \cup (IF side # None THEN {"closing"} ELSE {})

\* A variant that does not count an empty window as a short one.
HasFewTicks_NonEmpty(n) == 0 < n /\ n <= Max(lrr_ema_span, sr_ema_span) * 2

\* A variant with a strict comparison.
HasFewTicks_Strict(n) == n < Max(lrr_ema_span, sr_ema_span) * 2

\* _has_few_ticks
HasFewTicks(n) == n <= Max(lrr_ema_span, sr_ema_span) * 2

\* the condition of the branch that forces closing
ForcedClosing(side, sig, trend) ==
    side # None /\ (sig = "closing" \/ (trend # None /\ sig # trend))

\* int(self.account_info.equity) == 0
NoFund(acc) == IntOf(acc.equity) = 0

\* A variant that holds only without a signal.
Holding_OnlyWithoutSignal(side, sig) == side # None /\ sig = None

\* the condition of the branch that holds the position
Holding(side, sig) ==
    side # None /\ ((sig # None /\ sig = side) \/ sig = None)

\* A variant that tests the equity before the forced closing.
FirstGate_NoFundFirst(n, side, sig, trend, acc) ==
    IF HasFewTicks(n) THEN 1
    ELSE IF NoFund(acc) THEN 3
    ELSE IF ForcedClosing(side, sig, trend) THEN 2
    ELSE IF Holding(side, sig) THEN 4
    ELSE 0

\* The first four branches of the if-chain, in the code's order; 0: none of them.
FirstGate(n, side, sig, trend, acc) ==
    IF HasFewTicks(n) THEN 1
    ELSE IF ForcedClosing(side, sig, trend) THEN 2
    ELSE IF NoFund(acc) THEN 3
    ELSE IF Holding(side, sig) THEN 4
    ELSE 0

\* A variant without the preserved-margin floor.
IsMarginLack_NoFloor(ps, acc, um, uv) ==
    /\ ps = << >>
    /\ \/ um >= acc.margin_free
       \/ uv = 0

\* A variant without the test of a zero unit volume.
IsMarginLack_NoUnitVolume(ps, acc, um, uv) ==
    /\ ps = << >>
    /\ \/ um >= acc.margin_free
       \/ acc.equity * preserved_margin_pct >= acc.margin_free * 100

\* is_margin_lack, on the fields its three refreshes have just assigned
IsMarginLack(ps, acc, um, uv) ==
    /\ ps = << >>
    /\ \/ um >= acc.margin_free
       \/ uv = 0
       \/ acc.equity * preserved_margin_pct >= acc.margin_free * 100

\* _has_over_spread
HasOverSpread(tick) ==
    (tick.ask - tick.bid) * 2 * 100 >= max_spread_pct * (tick.ask + tick.bid)

\* The branches after the low-volume one, in the code's order.
LastGate(side, sig, trend) ==
    IF sig = None THEN 8
    ELSE IF trend # None /\ sig # trend THEN 9
    ELSE IF side # None THEN 10
    ELSE 11

\* act and state of each branch of the if-chain.
ActOf(g, sig) ==
    IF g = 2 THEN "closing" ELSE IF g \in {10, 11} THEN sig ELSE None

StateOf(g) ==
    CASE g = 1 -> "FEW TICKS"
      [] g = 2 -> "PCT SIDE ->"
      [] g = 3 -> "NO FUND"
      [] g = 4 -> "PCT SIDE"
      [] g = 5 -> "LACK OF FUNDS"
      [] g = 6 -> "OVER-SPREAD"
      [] g = 7 -> "LOW VOLUME"
      [] g = 8 -> "-"
      [] g = 9 -> "CONTRARY TREND"
      [] g = 10 -> "PCT SIDE -> SIG"
      [] g = 11 -> "-> SIG"

\* determine_sig_state returns: make_decision goes on to place the order.
Decide(g, sig) ==
    /\ gate' = g
    /\ act' = ActOf(g, sig)
    /\ state' = StateOf(g)
    /\ pc' = "place"

\* pos_pct (a division by the equity while a side is held), then
\* detect_trend_side when day_trend_suppressor is set
DetectTrendSide ==
    /\ pc = "trend"
    /\ IF position_side # None /\ account_info.equity = 0
       THEN /\ RaiseZeroDivision
            /\ UNCHANGED trend_side
       ELSE IF cfg.day_trend_suppressor # 0
       THEN \/ /\ trend_side' \in Sides
               /\ pc' = "ticks"
               /\ UNCHANGED error
            \/ /\ UNCHANGED trend_side
               /\ RaiseMt5
       ELSE /\ trend_side' = None
            /\ pc' = "ticks"
            /\ UNCHANGED error
    /\ UNCHANGED << callVars, cfg, loopVars, cacheVars, rows, sig_act, seen, gate, act,
                    state, new_volume, reqs >>

\* fetch_df_tick, signal_detector.detect and the first four branches
FetchTicksAndDetect ==
    /\ pc = "ticks"
    /\ \/ /\ symbol_info_tick' = None
          /\ RaiseMt5
          /\ UNCHANGED << rows, sig_act, seen, gate, act, state >>
       \/ /\ symbol_info_tick' \in Ticks
          /\ RaiseMt5
          /\ UNCHANGED << rows, sig_act, seen, gate, act, state >>
       \/ /\ symbol_info_tick' \in Ticks
          /\ rows' \in TickRowValues
          /\ sig_act' \in DetectActs(rows', position_side)
          /\ seen' = position_side
          /\ LET g == FirstGate(rows', position_side, sig_act', trend_side,
                                account_info)
             IN  IF g # 0 THEN Decide(g, sig_act')
                 ELSE /\ pc' = "lack_account"
                      /\ UNCHANGED << gate, act, state >>
          /\ UNCHANGED error
    /\ UNCHANGED << callVars, cfg, loopVars, account_info, symbol_info, positions,
                    min_margins, history_deals, unit_volume, unit_margin,
                    avail_volume, position_volumes, position_side, trend_side,
                    new_volume, reqs >>

\* is_margin_lack: _refresh_account_info_cache, _refresh_unit_margin_and_volume
MarginLackAccount ==
    /\ pc = "lack_account"
    /\ \/ /\ account_info' \in AccountInfos
          /\ SetUnitMarginAndVolume(account_info')
          /\ pc' = "lack_positions"
          /\ UNCHANGED error
       \/ /\ account_info' = None
          /\ UNCHANGED << unit_volume, unit_margin, avail_volume >>
          /\ RaiseMt5
    /\ UNCHANGED << callVars, cfg, loopVars, symbol_info, symbol_info_tick, positions,
                    min_margins, history_deals, position_volumes,
                    position_side, localVars >>

\* is_margin_lack: _refresh_position_cache and its result, then the
\* over-spread branch; the low-volume branch reads the rates first
MarginLackPositions ==
    /\ pc = "lack_positions"
    /\ \/ /\ \E ps \in PositionTuples : SetPositions(ps)
          /\ IF IsMarginLack(positions', account_info, unit_margin, unit_volume)
             THEN Decide(5, sig_act)
             ELSE IF HasOverSpread(symbol_info_tick)
             THEN Decide(6, sig_act)
             ELSE IF sig_act # "closing"
             THEN /\ pc' = "low_volume"
                  /\ UNCHANGED << gate, act, state >>
             ELSE Decide(LastGate(position_side', sig_act, trend_side), sig_act)
          /\ UNCHANGED error
       \/ /\ FailPositions
          /\ RaiseMt5
          /\ UNCHANGED << gate, act, state >>
    /\ UNCHANGED << callVars, cfg, loopVars, account_info, symbol_info, symbol_info_tick,
                    min_margins, history_deals, unit_volume, unit_margin,
                    avail_volume, trend_side, rows, sig_act, seen, new_volume,
                    reqs >>

\* _has_low_volume (fetch_df_rate) and the remaining branches
LowVolumeAndDecide ==
    /\ pc = "low_volume"
    /\ \/ /\ \E low \in BOOLEAN :
                IF low THEN Decide(7, sig_act)
                ELSE Decide(LastGate(position_side, sig_act, trend_side), sig_act)
          /\ UNCHANGED error
       \/ /\ RaiseMt5
          /\ UNCHANGED << gate, act, state >>
    /\ UNCHANGED << callVars, cfg, loopVars, cacheVars, trend_side, rows, sig_act, seen,
                    new_volume, reqs >>

-----------------------------------------------------------------------------
(* Mt5TraderCore.design_and_place_order and the end of make_decision.      *)

\* A variant that sends every request whatever the mode.
OrderFunc_AlwaysSend(c) == "order_send"

\* _send_or_check_order: the collaborator operation a request goes to
OrderFunc(c) == IF c.dry_run THEN "order_check" ELSE "order_send"

\* result.retcode of Mt5.order_send / Mt5.order_check, and the comment the
\* collaborator gives with it.
Retcodes == {"0", "TRADE_RETCODE_DONE", "TRADE_RETCODE_REJECT"}

CommentOf(rc) ==
    IF rc = "0" THEN "Done"
    ELSE IF rc = "TRADE_RETCODE_DONE" THEN "Request executed"
    ELSE "Request rejected"

\* A variant that takes TRADE_RETCODE_DONE for success in a dry run too.
RetcodeOk_AsSent(c, rc) == rc = "TRADE_RETCODE_DONE"

\* _send_or_check_order: the test of result.retcode
RetcodeOk(c, rc) ==
    \/ ~c.dry_run /\ rc = "TRADE_RETCODE_DONE"
    \/ c.dry_run /\ rc = "0"

\* _send_or_check_order: the request q with its result; raised is the comment
\* in the message of the Mt5ResponseError, None when nothing is raised.
SendOrCheckOrder(c, q, rc) ==
    q @@ [ retcode |-> rc, comment |-> CommentOf(rc), ok |-> RetcodeOk(c, rc),
           raised |-> (IF RetcodeOk(c, rc) THEN None ELSE CommentOf(rc)) ]

\* round(x, digits) of x = n / d points: Python rounds halves to even
RoundHalfEven(n, d) ==
    LET q == n \div d
        m == n % d
    IN  IF 2 * m < d THEN q
        ELSE IF 2 * m > d THEN q + 1
        ELSE IF q % 2 = 0 THEN q ELSE q + 1

\* A variant that moves the stop to the recomputed one whatever the old one.
TrailingSl_Always(p, tick) ==
    IF p.type = "SELL"
    THEN RoundHalfEven(tick.bid * (100 + trailing_stop_limit_pct), 100)
    ELSE RoundHalfEven(tick.ask * (100 - trailing_stop_limit_pct), 100)

\* A variant whose comparisons are not strict.
TrailingSl_NotStrict(p, tick) ==
    IF p.type = "SELL"
    THEN LET new_sl == RoundHalfEven(tick.bid * (100 + trailing_stop_limit_pct), 100)
         IN  IF new_sl <= p.sl \/ p.sl = 0 THEN new_sl ELSE 0
    ELSE LET new_sl == RoundHalfEven(tick.ask * (100 - trailing_stop_limit_pct), 100)
         IN  IF new_sl >= p.sl \/ p.sl = 0 THEN new_sl ELSE 0

\* trail_and_update_stop_loss: trailing_sl of one position, 0 for no update
TrailingSl(p, tick) ==
    IF p.type = "SELL"
    THEN LET new_sl == RoundHalfEven(tick.bid * (100 + trailing_stop_limit_pct), 100)
         IN  IF new_sl < p.sl \/ p.sl = 0 THEN new_sl ELSE 0
    ELSE LET new_sl == RoundHalfEven(tick.ask * (100 - trailing_stop_limit_pct), 100)
         IN  IF new_sl > p.sl \/ p.sl = 0 THEN new_sl ELSE 0

\* A variant whose deal has the type of the position it should close.
CloseRequest_SameType(c, p, i) ==
    [ action |-> "DEAL", type |-> p.type,
      volume |-> p.volume, position |-> i, sl |-> 0, tp |-> 0,
      func |-> OrderFunc(c) ]

\* close_positions: the request for the position with ticket i
CloseRequest(c, p, i) ==
    [ action |-> "DEAL", type |-> (IF p.type = "BUY" THEN "SELL" ELSE "BUY"),
      volume |-> p.volume, position |-> i, sl |-> 0, tp |-> 0,
      func |-> OrderFunc(c) ]

CloseRequests(c, ps) == [i \in 1..Len(ps) |-> CloseRequest(c, ps[i], i)]

\* trail_and_update_stop_loss: the request for the position with ticket i
TrailRequest(c, p, i, tick) ==
    [ action |-> "SLTP", type |-> None, volume |-> 0, position |-> i,
      sl |-> 100 * TrailingSl(p, tick), tp |-> 100 * p.tp,
      func |-> OrderFunc(c) ]

RECURSIVE TrailRequestsUpTo(_, _, _, _)
TrailRequestsUpTo(c, ps, tick, i) ==
    IF i = 0 THEN << >>
    ELSE LET before == TrailRequestsUpTo(c, ps, tick, i - 1)
         IN  IF TrailingSl(ps[i], tick) # 0
             THEN Append(before, TrailRequest(c, ps[i], i, tick))
             ELSE before

TrailRequests(c, ps, tick) == TrailRequestsUpTo(c, ps, tick, Len(ps))

\* A variant that takes the ask for both sides.
OrderLimits_AskForBoth(side, tick) ==
    IF side = "long"
    THEN [sl |-> tick.ask * (100 - stop_loss_limit_pct),
          tp |-> tick.ask * (100 + take_profit_limit_pct)]
    ELSE IF side = "short"
    THEN [sl |-> tick.ask * (100 + stop_loss_limit_pct),
          tp |-> tick.ask * (100 - take_profit_limit_pct)]
    ELSE [sl |-> None, tp |-> None]

\* _determine_order_limits, in hundredths of a point
OrderLimits(side, tick) ==
    IF side = "long"
    THEN [sl |-> tick.ask * (100 - stop_loss_limit_pct),
          tp |-> tick.ask * (100 + take_profit_limit_pct)]
    ELSE IF side = "short"
    THEN [sl |-> tick.bid * (100 + stop_loss_limit_pct),
          tp |-> tick.bid * (100 - take_profit_limit_pct)]
    ELSE [sl |-> None, tp |-> None]

\* _place_order: the opening request
OpenRequest(c, side, volume, limits) ==
    [ action |-> "DEAL", type |-> (IF side = "long" THEN "BUY" ELSE "SELL"),
      volume |-> volume, position |-> 0, sl |-> limits.sl, tp |-> limits.tp,
      func |-> OrderFunc(c) ]

\* _determine_order_volume
OrderVolume(c, uv, deals, av) ==
    Min(CalculateVolumeByPl(c.betting_strategy, TRUE, uv, deals, 0), av)

\* A variant that submits the whole order volume while the side is held.
NewVolume_IgnoringHeld(side, a, order_volume, volumes) == order_volume

\* design_and_place_order: new_volume of an opening order
NewVolume(side, a, order_volume, volumes) ==
    IF side # None /\ a = side THEN order_volume - volumes[a] ELSE order_volume

\* The retcodes a request's result may carry.
OkRetcodes(c) == {rc \in Retcodes : RetcodeOk(c, rc)}
BadRetcodes(c) == {rc \in Retcodes : ~RetcodeOk(c, rc)}

\* The requests of rs that are sent, with their results, when the result of
\* request f carries rc (f = 0: every result carries ok): a result that is
\* not a success raises, so the requests after it are never sent.
Sent(c, rs, f, ok, rc) ==
    [i \in 1..(IF f = 0 THEN Len(rs) ELSE f) |->
        SendOrCheckOrder(c, rs[i], IF i = f THEN rc ELSE ok)]

\* After the closing or trailing part: the opening part for a side, else
\* design_and_place_order returns 0 and make_decision prints the state.
AfterFirstPart ==
    IF act \in Sides THEN pc' = "open" ELSE pc' = "returned"

\* close_positions
ClosePositions ==
    \/ /\ FailPositions
       /\ RaiseMt5
       /\ UNCHANGED << symbol_info_tick, reqs >>
    \/ \E ps \in PositionTuples : \E f \in 0..Len(ps) :
       \E ok \in OkRetcodes(cfg) :
       \E rc \in (IF f = 0 THEN {ok} ELSE BadRetcodes(cfg)) :
          /\ SetPositions(ps)
          /\ reqs' = reqs \o Sent(cfg, CloseRequests(cfg, ps), f, ok, rc)
          /\ IF f # 0 THEN RaiseMt5 ELSE AfterFirstPart /\ UNCHANGED error
          /\ UNCHANGED symbol_info_tick

\* trail_and_update_stop_loss
TrailAndUpdateStopLoss ==
    \/ /\ FailPositions
       /\ RaiseMt5
       /\ UNCHANGED << symbol_info_tick, reqs >>
    \/ /\ SetPositions(<< >>)
       /\ AfterFirstPart
       /\ UNCHANGED << symbol_info_tick, reqs, error >>
    \/ \E ps \in PositionTuples \ {<< >>} :
          /\ SetPositions(ps)
          /\ \/ /\ symbol_info_tick' = None
                /\ RaiseMt5
                /\ UNCHANGED reqs
             \/ \E tick \in Ticks :
                \E f \in 0..Len(TrailRequests(cfg, ps, tick)) :
                \E ok \in OkRetcodes(cfg) :
                \E rc \in (IF f = 0 THEN {ok} ELSE BadRetcodes(cfg)) :
                   /\ symbol_info_tick' = tick
                   /\ reqs' = reqs \o Sent(cfg, TrailRequests(cfg, ps, tick),
                                            f, ok, rc)
                   /\ IF f # 0 THEN RaiseMt5
                      ELSE AfterFirstPart /\ UNCHANGED error

\* A variant whose closing branch does not ask for an action.
PlaceFirstPart_ClosingWithoutAct ==
    /\ pc = "place"
    /\ IF position_side # None /\ (act = "closing" \/ act # position_side)
       THEN ClosePositions
       ELSE IF position_side # None
       THEN TrailAndUpdateStopLoss
       ELSE /\ AfterFirstPart
            /\ UNCHANGED << symbol_info_tick, positions, position_volumes,
                            position_side, reqs, error >>
    /\ UNCHANGED << callVars, cfg, loopVars, account_info, symbol_info, min_margins,
                    history_deals, unit_volume, unit_margin, avail_volume,
                    trend_side, rows, sig_act, seen, gate, act, state,
                    new_volume >>

\* design_and_place_order, up to the test of act in ['long', 'short']
PlaceFirstPart ==
    /\ pc = "place"
    /\ IF position_side # None /\ act # None
          /\ (act = "closing" \/ act # position_side)
       THEN ClosePositions
       ELSE IF position_side # None
       THEN TrailAndUpdateStopLoss
       ELSE /\ AfterFirstPart
            /\ UNCHANGED << symbol_info_tick, positions, position_volumes,
                            position_side, reqs, error >>
    /\ UNCHANGED << callVars, cfg, loopVars, account_info, symbol_info, min_margins,
                    history_deals, unit_volume, unit_margin, avail_volume,
                    trend_side, rows, sig_act, seen, gate, act, state,
                    new_volume >>

\* design_and_place_order for act in ['long', 'short'], then the rest of
\* make_decision: the share of the equity (a division by the equity) when an
\* order was opened, 'LACK OF FUNDS' when it was skipped
PlaceOpeningOrder ==
    /\ pc = "open"
    /\ \/ /\ symbol_info_tick' = None
          /\ RaiseMt5
          /\ UNCHANGED << state, new_volume, reqs >>
       \/ \E tick \in Ticks :
          LET nv == NewVolume(position_side, act,
                              OrderVolume(cfg, unit_volume, history_deals,
                                          avail_volume),
                              position_volumes)
              rq == OpenRequest(cfg, act, nv, OrderLimits(act, tick))
          IN  /\ symbol_info_tick' = tick
              /\ IF nv > 0
                 THEN \/ \E rc \in BadRetcodes(cfg) :
                         /\ reqs' = Append(reqs, SendOrCheckOrder(cfg, rq, rc))
                         /\ RaiseMt5
                         /\ UNCHANGED << state, new_volume >>
                      \/ \E rc \in OkRetcodes(cfg) :
                         /\ reqs' = Append(reqs, SendOrCheckOrder(cfg, rq, rc))
                         /\ new_volume' = nv
                         /\ UNCHANGED state
                         /\ IF account_info.equity = 0
                            THEN RaiseZeroDivision
                            ELSE pc' = "returned" /\ UNCHANGED error
                 ELSE /\ new_volume' = 0
                      /\ state' = "LACK OF FUNDS"
                      /\ pc' = "returned"
                      /\ UNCHANGED << reqs, error >>
    /\ UNCHANGED << callVars, cfg, loopVars, account_info, symbol_info, positions,
                    min_margins, history_deals, unit_volume, unit_margin,
                    avail_volume, position_volumes, position_side, trend_side,
                    rows, sig_act, seen, gate, act >>

-----------------------------------------------------------------------------

Next ==
    \/ StartPass
    \/ RefreshAccountInfo
    \/ RefreshSymbolInfo
    \/ RefreshSymbolInfoTick
    \/ RefreshPositions
    \/ RefreshOrdersAndMargin
    \/ RefreshDealsAndUnit
    \/ DetectTrendSide
    \/ FetchTicksAndDetect
    \/ MarginLackAccount
    \/ MarginLackPositions
    \/ LowVolumeAndDecide
    \/ PlaceFirstPart
    \/ PlaceOpeningOrder
    \/ Break
    \/ RetryOnError
    \/ Sleep

Spec == Init /\ [][Next]_vars

-----------------------------------------------------------------------------
(* trail_and_update_stop_loss as a maintenance operation of its own: the   *)
(* positions are those the collaborator holds, the calls follow price      *)
(* moves, and an SLTP request accepted by Mt5.order_send moves the stop of *)
(* its position (Mt5.order_check changes nothing).                         *)

\* Mt5.symbol_info_tick(s) around the stops of the positions below.
TrailTicks ==
    { [bid |-> b, ask |-> a] : b \in 98..101, a \in 98..101 } \
        { t \in [bid : 98..101, ask : 98..101] : t.bid > t.ask }

\* Positions with no stop and with stops around the recomputed ones.
TrailPositionValues ==
    { [type |-> "BUY", volume |-> 1, sl |-> x, tp |-> 110] : x \in {0, 98, 99, 100} }
    \cup
    { [type |-> "SELL", volume |-> 1, sl |-> x, tp |-> 90] : x \in {0, 100, 101, 102} }
TrailPositionTuples == SeqsUpTo(TrailPositionValues, MaxPositions)

\* Position i after the requests rs: an accepted SLTP request that was sent
\* sets the stop and the take-profit it carries.
Modified(p, i, rs) ==
    IF \E k \in DOMAIN rs :
          rs[k].position = i /\ rs[k].ok /\ rs[k].func = "order_send"
    THEN LET k == CHOOSE k \in DOMAIN rs : rs[k].position = i
         IN  [p EXCEPT !.sl = rs[k].sl \div 100, !.tp = rs[k].tp \div 100]
    ELSE p

TrailInit ==
    /\ cfg \in Configs
    /\ pc = "trail"
    /\ InitLoop
    /\ account_info = None
    /\ symbol_info = None
    /\ symbol_info_tick \in TrailTicks
    /\ positions \in TrailPositionTuples
    /\ min_margins = None
    /\ history_deals = << >>
    /\ unit_volume = (IF cfg.unit_margin_pct # 0 THEN None ELSE cfg.unit_volume)
    /\ unit_margin = None
    /\ avail_volume = None
    /\ position_volumes = PositionVolumesOf(positions)
    /\ position_side = PositionSideOf(positions)
    /\ InitLocals
    /\ error = None
    /\ InitBettingSystem
    /\ order_limits = None

\* The price moves between two calls.
TrailPriceMove ==
    /\ pc \in {"trail", "trailed", "trailed_again", "trail_error"}
    /\ symbol_info_tick' \in TrailTicks \ {symbol_info_tick}
    /\ pc' = "trail"
    /\ reqs' = << >>
    /\ error' = None
    /\ UNCHANGED << callVars, cfg, loopVars, account_info, symbol_info, positions,
                    min_margins, history_deals, unit_volume, unit_margin,
                    avail_volume, position_volumes, position_side, trend_side,
                    rows, sig_act, seen, gate, act, state, new_volume >>

\* One call of trail_and_update_stop_loss on the positions and the tick the
\* collaborator holds; the collaborator applies what it accepts.
TrailCall ==
    /\ pc \in {"trail", "trailed", "trailed_again"}
    /\ LET rs == TrailRequests(cfg, positions, symbol_info_tick) IN
       \E f \in 0..Len(rs) :
       \E ok \in OkRetcodes(cfg) :
       \E rc \in (IF f = 0 THEN {ok} ELSE BadRetcodes(cfg)) :
          /\ reqs' = Sent(cfg, rs, f, ok, rc)
          /\ SetPositions([i \in DOMAIN positions |->
                              Modified(positions[i], i, reqs')])
          /\ IF f # 0
             THEN pc' = "trail_error" /\ error' = "Mt5ResponseError"
             ELSE /\ pc' = (IF pc = "trail" THEN "trailed" ELSE "trailed_again")
                  /\ UNCHANGED error
    /\ UNCHANGED << callVars, cfg, loopVars, account_info, symbol_info,
                    symbol_info_tick, min_margins, history_deals, unit_volume,
                    unit_margin, avail_volume, trend_side, rows, sig_act, seen,
                    gate, act, state, new_volume >>

TrailNext == TrailPriceMove \/ TrailCall

TrailSpec == TrailInit /\ [][TrailNext]_vars

-----------------------------------------------------------------------------
(* BettingSystem on its own: construction with any strategy name, then     *)
(* calls of calculate_volume_by_pl with any unit volume, init volume and   *)
(* deal history.                                                           *)

MaxDeals == 3

UnitVolumes == {1, 2}

\* init_volume: 0 stands for both None and 0, which `or` does not tell apart.
InitVolumes == {0, 3}

\* Deals of Mt5.history_deals_get: exits with a loss, a profit and no profit,
\* an entry (d.entry = 0), and an exit that is neither a buy nor a sell.
BetDealValues ==
    { [entry |-> 1, type |-> "BUY",  volume |-> 1, profit |-> -5],
      [entry |-> 1, type |-> "SELL", volume |-> 1, profit |-> 3],
      [entry |-> 1, type |-> "BUY",  volume |-> 2, profit |-> 2],
      [entry |-> 1, type |-> "SELL", volume |-> 2, profit |-> 0],
      [entry |-> 1, type |-> "BUY",  volume |-> 3, profit |-> -2],
      [entry |-> 0, type |-> "SELL", volume |-> 3, profit |-> 0],
      [entry |-> 1, type |-> "BALANCE", volume |-> 0, profit |-> 7] }

BetDealHistories == SeqsUpTo(BetDealValues, MaxDeals)

\* _calculate_volume reaches `raise ValueError` when the outcome is
\* determined and the strategy is none of the six of the dispatch.
DispatchRaises(strategy, strict, deals) ==
    LET entry_deals == EntryDeals(deals)
        pl == [i \in 1..Len(entry_deals) |-> entry_deals[i].profit]
    IN  /\ entry_deals # << >>
        /\ WonLast(pl, strict) # None
        /\ strategy \notin {"Martingale", "Paroli", "d'Alembert", "Pyramid",
                             "Oscar's grind", "Constant"}

BetInit ==
    /\ cfg = CHOOSE c \in Configs : ~c.dry_run
    /\ pc = "bet"
    /\ InitLoop
    /\ InitCaches
    /\ InitLocals
    /\ error = None
    /\ bpc = "new"
    /\ strategy_arg \in StrategyArgs
    /\ bs_strategy = None
    /\ bs_strict = TRUE
    /\ bet_call = NoCall
    /\ bet_volume = 0
    /\ order_limits = None

\* BettingSystem.__init__(strategy, strict)
NewBettingSystem ==
    /\ bpc = "new"
    /\ LET matched_strategy == MatchedStrategy(strategy_arg) IN
       IF matched_strategy # << >>
       THEN /\ bs_strategy' = matched_strategy[1]
            /\ bs_strict' \in BOOLEAN
            /\ bpc' = "ready"
            /\ UNCHANGED error
       ELSE /\ bpc' = "raised_init"
            /\ error' = "ValueError"
            /\ UNCHANGED << bs_strategy, bs_strict >>
    /\ UNCHANGED << strategy_arg, bet_call, bet_volume, cfg, loopVars, pc,
                    cacheVars, localVars, order_limits >>

\* calculate_volume_by_pl(unit_volume, history_deals, init_volume)
CalculateVolumeByPlCall ==
    /\ bpc = "ready"
    /\ \E unit \in UnitVolumes, init \in InitVolumes, deals \in BetDealHistories :
          /\ bet_call' = [unit_volume |-> unit, init_volume |-> init,
                          history_deals |-> deals]
          /\ IF DispatchRaises(bs_strategy, bs_strict, deals)
             THEN /\ bpc' = "raised_dispatch"
                  /\ error' = "ValueError"
                  /\ UNCHANGED bet_volume
             ELSE /\ bpc' = "called"
                  /\ bet_volume' = CalculateVolumeByPl(bs_strategy, bs_strict,
                                                       unit, deals, init)
                  /\ UNCHANGED error
    /\ UNCHANGED << strategy_arg, bs_strategy, bs_strict, cfg, loopVars, pc,
                    cacheVars, localVars, order_limits >>

\* The caller has taken the volume; the object is ready for the next call.
ReturnVolume ==
    /\ bpc = "called"
    /\ bpc' = "ready"
    /\ bet_call' = NoCall
    /\ bet_volume' = 0
    /\ UNCHANGED << strategy_arg, bs_strategy, bs_strict, cfg, loopVars, pc,
                    cacheVars, localVars, error, order_limits >>

BetNext == NewBettingSystem \/ CalculateVolumeByPlCall \/ ReturnVolume

BetSpec == BetInit /\ [][BetNext]_vars

-----------------------------------------------------------------------------
(* _determine_order_limits on its own: a trader constructed with any       *)
(* stop-loss and take-profit ratios strictly between 0 and 1, then calls   *)
(* for any side on any tick.                                               *)

\* stop_loss_limit_ratio and take_profit_limit_ratio, in percent.
LimitPcts == {1, 50, 99}

LimitConfigs ==
    { [c EXCEPT !.stop_loss_limit_pct = sl, !.take_profit_limit_pct = tp] :
        c \in {c \in Configs : ~c.dry_run}, sl \in LimitPcts, tp \in LimitPcts }

\* Mt5.symbol_info_tick(s): bid at or below ask.
LimitTicks ==
    { t \in [bid : {99, 100, 101}, ask : {99, 100, 101}] : t.bid <= t.ask }

LimitInit ==
    /\ cfg \in LimitConfigs
    /\ pc = "limits"
    /\ InitLoop
    /\ InitCaches
    /\ InitLocals
    /\ error = None
    /\ InitBettingSystem
    /\ order_limits = None

\* _determine_order_limits(side)
DetermineOrderLimits ==
    /\ pc \in {"limits", "limited", "limit_error"}
    /\ \E side \in Sides \cup {"closing"} :
          /\ act' = side
          /\ \/ /\ symbol_info_tick' = None
                /\ pc' = "limit_error"
                /\ error' = "Mt5ResponseError"
                /\ UNCHANGED order_limits
             \/ \E tick \in LimitTicks :
                /\ symbol_info_tick' = tick
                /\ order_limits' = OrderLimits(side, tick)
                /\ pc' = "limited"
                /\ error' = None
    /\ UNCHANGED << betVars, cfg, loopVars, account_info, symbol_info, positions,
                    min_margins, history_deals, unit_volume, unit_margin,
                    avail_volume, position_volumes, position_side, trend_side,
                    rows, sig_act, seen, gate, state, new_volume, reqs >>

LimitNext == DetermineOrderLimits

LimitSpec == LimitInit /\ [][LimitNext]_vars

-----------------------------------------------------------------------------
(* Properties.                                                             *)

IsOpening(q) == q.action = "DEAL" /\ q.position = 0
IsClosing(q) == q.action = "DEAL" /\ q.position # 0
IsStopUpdate(q) == q.action = "SLTP"
SideOfRequest(q) == IF q.type = "BUY" THEN "long" ELSE "short"

\* The volume the betting system asks for, on the fields of this cycle.
BetVolume ==
    CalculateVolumeByPl(cfg.betting_strategy, TRUE, unit_volume, history_deals, 0)

\* min(bet volume, avail_volume), less the volume held on side s when s is
\* the dominant side.
OpeningQuantity(s) ==
    Min(BetVolume, avail_volume)
    - (IF position_side = s THEN position_volumes[s] ELSE 0)

\* C1: an opening order of a cycle is for the decided side, its volume is
\* min(bet volume, avail_volume) less the volume held on that side when it is
\* the dominant side, and that volume is > 0; when the quantity is <= 0 the
\* cycle submits no opening order and reports a volume of 0.
C1_OpeningVolume ==
    /\ \A i \in DOMAIN reqs :
          IsOpening(reqs[i]) =>
              /\ SideOfRequest(reqs[i]) = act
              /\ reqs[i].volume = OpeningQuantity(act)
              /\ reqs[i].volume > 0
    /\ (pc = "returned" /\ act \in Sides /\ OpeningQuantity(act) <= 0) =>
          /\ new_volume = 0
          /\ \A i \in DOMAIN reqs : ~IsOpening(reqs[i])

\* An accepted opening order for the side that is already dominant: only the
\* increment over the held volume was submitted.
C1_Witness ==
    /\ pc = "returned"
    /\ \E i \in DOMAIN reqs :
          /\ IsOpening(reqs[i])
          /\ reqs[i].ok
          /\ position_side = SideOfRequest(reqs[i])
          /\ reqs[i].volume < BetVolume

\* The lack-of-funds condition of the margin gate, on the account and unit
\* fields the gate has just refreshed.
FundsLack ==
    \/ unit_margin >= account_info.margin_free
    \/ unit_volume = 0
    \/ account_info.equity * preserved_margin_pct >= account_info.margin_free * 100

\* The if-chain has gone past its first four branches and has decided.
DecidedAfterGate4 == pc = "place" /\ gate >= 5

\* C2 (as claimed): when gates 1-4 do not apply and both the lack-of-funds
\* condition and the over-spread condition hold, the verdict is
\* 'LACK OF FUNDS' with act none.
C2_Original ==
    (DecidedAfterGate4 /\ FundsLack /\ HasOverSpread(symbol_info_tick))
        => (state = "LACK OF FUNDS" /\ act = None)

\* C2 (amended): the same, provided the margin gate's read of the positions
\* finds none open for the symbol.
C2_LackBeforeSpread ==
    (DecidedAfterGate4 /\ positions = << >> /\ FundsLack
        /\ HasOverSpread(symbol_info_tick))
        => (gate = 5 /\ state = "LACK OF FUNDS" /\ act = None)

\* Lack of funds decided although the spread is over the maximum, the floor
\* of preserved margin being the only lack.
C2_Witness ==
    /\ DecidedAfterGate4
    /\ gate = 5
    /\ HasOverSpread(symbol_info_tick)
    /\ unit_margin < account_info.margin_free
    /\ unit_volume # 0

\* The tick window has been fetched and the signal detected in this attempt.
SignalRead == rows >= 0

\* The tick window is longer than twice the longer span.
SufficientTicks == rows > 2 * Max(lrr_ema_span, sr_ema_span)

\* A closing signal, or a configured trend side against the signal's side.
ClosingCondition ==
    \/ sig_act = "closing"
    \/ trend_side # None /\ sig_act \in Sides /\ sig_act # trend_side

\* C3: with a sufficient tick window and a dominant side held, a closing
\* signal, or a trend side against the signal's side, decides 'closing'
\* whatever the equity, margin, spread and volume; the cycle then submits one
\* closing deal per open position and nothing else.
C3_ForcedClosing ==
    /\ (SignalRead /\ SufficientTicks /\ seen # None /\ ClosingCondition)
          => (gate = 2 /\ act = "closing")
    /\ gate = 2 => \A i \in DOMAIN reqs : IsClosing(reqs[i])
    /\ (gate = 2 /\ pc = "returned") =>
          /\ Len(reqs) = Len(positions)
          /\ \A i \in DOMAIN reqs :
                /\ reqs[i].position = i
                /\ reqs[i].volume = positions[i].volume
                /\ reqs[i].type # positions[i].type

\* Two positions closed on a closing signal although the equity rounds to 0.
C3_Witness ==
    /\ pc = "returned"
    /\ gate = 2
    /\ sig_act = "closing"
    /\ Len(reqs) = 2
    /\ account_info.equity \div 2 = 0

\* C4 (as claimed): with a sufficient tick window and non-zero equity, a held
\* side whose signal is silent, or equals the held side with no trend side
\* against it, decides none, and the cycle submits no deal; a silent signal
\* is held also when a trend filter is configured.
C4_Original ==
    /\ (SignalRead /\ SufficientTicks /\ seen # None
          /\ \/ sig_act = None
             \/ sig_act = seen /\ (trend_side = None \/ trend_side = sig_act))
          => act = None
    /\ (gate \in 1 .. 4 /\ act = None) =>
          \A i \in DOMAIN reqs : IsStopUpdate(reqs[i])

\* C5 (as claimed): when gates 1-4 do not apply, any of the three lacks
\* decides none with 'LACK OF FUNDS'.
C5_Original ==
    (DecidedAfterGate4 /\ FundsLack) => (act = None /\ state = "LACK OF FUNDS")

\* C5 (amended): when gates 1-4 do not apply, the margin gate decides none
\* with 'LACK OF FUNDS' exactly when its read of the positions finds none
\* open and one of the three lacks holds; the cycle then submits nothing.
C5_LackOfFunds ==
    /\ DecidedAfterGate4 => ((positions = << >> /\ FundsLack) <=> gate = 5)
    /\ gate = 5 =>
          /\ act = None
          /\ state = "LACK OF FUNDS"
          /\ reqs = << >>
          /\ pc \in {"place", "returned"}

\* Lack of funds decided on a zero unit volume alone.
C5_Witness ==
    /\ pc = "returned"
    /\ gate = 5
    /\ unit_volume = 0
    /\ unit_margin < account_info.margin_free
    /\ account_info.equity * preserved_margin_pct < account_info.margin_free * 100

\* C6 (as claimed): with a sufficient tick window and no forced closing, an
\* equity of zero decides none with 'NO FUND' for every position state, a
\* held dominant side included: no error is raised by a division by the
\* equity, and the later gates are not reached.
C6_Original ==
    /\ (gate \in 1 .. 4 /\ SufficientTicks /\ ~ForcedClosing(seen, sig_act, trend_side)
          /\ account_info.equity = 0)
          => (act = None /\ state = "NO FUND")
    /\ pc = "lack_account" => account_info.equity # 0
    /\ ~(error = "ZeroDivisionError" /\ gate = 0)

\* C7: a tick window of at most twice the longer span decides none with
\* 'FEW TICKS' whatever the positions, the signal, the equity and the trend
\* side, and the cycle submits no deal.
C7_FewTicks ==
    (SignalRead /\ rows <= 2 * Max(lrr_ema_span, sr_ema_span)) =>
        /\ gate = 1
        /\ act = None
        /\ state = "FEW TICKS"
        /\ \A i \in DOMAIN reqs : IsStopUpdate(reqs[i])

\* A window of exactly twice the longer span, a held side, a closing signal
\* and an equity that rounds to zero: the cycle ends without a deal.
C7_Witness ==
    /\ pc = "returned"
    /\ gate = 1
    /\ rows = 2 * Max(lrr_ema_span, sr_ema_span)
    /\ seen # None
    /\ sig_act = "closing"
    /\ account_info.equity \div 2 = 0

\* What a step of the retry loop does to the attempt count r of the symbol.
C8_Step ==
    /\ r' # r => (r' = 0 \/ (r' = r + 1 /\ pc = "mt5error" /\ si' = si))
    /\ (si' # si \/ pc = "pass") => r' = 0
    /\ pc = "returned" => (pc' = "sleep" \/ si' = si + 1)
    /\ (pc' = "account" /\ pc # "account") => pc \in {"pass", "returned", "mt5error"}
    /\ pc = "mt5error" => (r' = r + 1 /\ si' = si /\ pc' = "account")

\* C8: in one pass a symbol's cycle is attempted at most retry_count + 1
\* times (r counts from 0 to retry_count); the first attempt that completes
\* without a collaborator response error ends the symbol's attempts; the
\* count starts again from zero for every symbol and every pass.
C8_Attempts == [](r \in 0 .. retry_count) /\ [][C8_Step]_vars

\* An attempt has completed after an earlier attempt of the same symbol failed.
C8_Witness == pc = "returned" /\ r = retry_count /\ warned = retry_count /\ si = 2

\* What a step does when a collaborator response error is raised or handled.
C9_Step ==
    /\ pc # "raised"
    /\ (error = None /\ error' = "Mt5ResponseError") =>
          /\ pc' = (IF r = retry_count THEN "raised" ELSE "mt5error")
          /\ r' = r
          /\ warned' = warned
    /\ pc = "mt5error" => (warned' = warned + 1 /\ pc' = "account" /\ si' = si)

\* C9: when retry_count + 1 consecutive attempts of one symbol's cycle fail
\* with a collaborator response error, the last error leaves invoke: no step
\* follows it (no later symbol, no sleep, no further pass); every earlier
\* failed attempt is logged as a warning and retried.
C9_Propagation ==
    /\ [](/\ warned = r
          /\ pc = "mt5error" => r < retry_count
          /\ pc = "raised" => (r = retry_count /\ error = "Mt5ResponseError"))
    /\ [][C9_Step]_vars

\* The error of the first symbol has left invoke after retry_count warnings.
C9_Witness == pc = "raised" /\ warned = retry_count /\ si = 1 /\ retry_count > 0

\* What a step does to the position in the symbol list and to the sleep.
C10_Step ==
    /\ si' # si =>
          \/ pc = "returned" /\ si' = si + 1 /\ symbol' = Symbols[si + 1]
          \/ pc = "pass" /\ si' = 1 /\ symbol' = Symbols[1]
    /\ (pc' = "sleep" /\ pc # "sleep") => (pc = "returned" /\ si = Len(Symbols))
    /\ (pc = "returned" /\ si = Len(Symbols)) => pc' = "sleep"
    /\ pc = "sleep" => pc' = "pass"
    /\ pc = "pass" => (pc' = "account" /\ si' = 1)

\* C10: within a pass the symbols are evaluated in list order, one symbol's
\* cycle with its retries finishing before the next starts; the sleep comes
\* once per pass, after the last symbol; a new pass follows the sleep, and
\* short of a fatal error the loop always has a next step.
C10_ListOrder ==
    /\ [](/\ si > 0 => symbol = Symbols[si]
          /\ pc \notin {"raised", "crashed"} => ENABLED Next)
    /\ [][C10_Step]_vars

\* The sleep after the last symbol of the list.
C10_Witness == pc = "sleep" /\ si = Len(Symbols) /\ symbol = Symbols[Len(Symbols)]

-----------------------------------------------------------------------------
(* The trailing-stop update (TrailSpec).                                   *)

\* The stop recomputed from the current price: bid x (1 + trailing ratio) for
\* a short, ask x (1 - trailing ratio) for a long, rounded.
RecomputedStop(p, tick) ==
    IF p.type = "SELL"
    THEN RoundHalfEven(tick.bid * (100 + trailing_stop_limit_pct), 100)
    ELSE RoundHalfEven(tick.ask * (100 - trailing_stop_limit_pct), 100)

\* The recomputed stop tightens the stop of p, or p has no stop.
Tightens(p, tick) ==
    \/ p.sl = 0
    \/ p.type = "SELL" /\ RecomputedStop(p, tick) < p.sl
    \/ p.type # "SELL" /\ RecomputedStop(p, tick) > p.sl

\* A step of a call submits only tightening modifications, each carrying the
\* recomputed stop and the take-profit of its position; any step keeps the
\* positions and never loosens a stop that is set.
C11_Step ==
    /\ pc' # "trail" =>
          \A k \in DOMAIN reqs' :
             LET q == reqs'[k]
                 p == positions[q.position]
             IN  /\ q.action = "SLTP"
                 /\ Tightens(p, symbol_info_tick)
                 /\ q.sl = 100 * RecomputedStop(p, symbol_info_tick)
                 /\ q.tp = 100 * p.tp
    /\ Len(positions') = Len(positions)
    /\ \A i \in DOMAIN positions :
          /\ positions'[i].type = positions[i].type
          /\ positions'[i].tp = positions[i].tp
          /\ positions[i].sl # 0 =>
                IF positions[i].type = "SELL"
                THEN 0 < positions'[i].sl /\ positions'[i].sl <= positions[i].sl
                ELSE positions'[i].sl >= positions[i].sl

\* C11: trail_and_update_stop_loss submits a stop-loss modification for a
\* position only when the recomputed stop is strictly lower than the stop of
\* a short, strictly higher than the stop of a long, or the stop is unset;
\* over price moves and updates a stop that is set never loosens, and the
\* request carries the take-profit of the position unchanged.
C11_OnlyTightens == [][C11_Step]_vars

\* A sent update that modified one position and left alone another whose
\* stop the recomputed one would not tighten.
C11_Witness ==
    /\ pc = "trailed" /\ ~cfg.dry_run
    /\ Len(reqs) = 1 /\ Len(positions) = 2
    /\ \E i \in DOMAIN positions :
          /\ positions[i].sl # 0
          /\ reqs[1].position # i
          /\ ~Tightens(positions[i], symbol_info_tick)
    /\ positions[reqs[1].position].sl = reqs[1].sl \div 100

\* A call that follows a call with no price move in between, the
\* modifications of the first one sent and applied.
C12_Step ==
    (pc \in {"trailed", "trailed_again"} /\ pc' # "trail" /\ ~cfg.dry_run) =>
        /\ pc' = "trailed_again"
        /\ reqs' = << >>
        /\ positions' = positions

\* C12: a second call of the trailing-stop update with unchanged bid and ask,
\* the modifications of the first call applied, submits no order and leaves
\* the stop of every position unchanged.
C12_Idempotent ==
    /\ [](pc = "trailed_again" /\ ~cfg.dry_run => reqs = << >>)
    /\ [][C12_Step]_vars

\* After the second call: two positions, both with the recomputed stop.
C12_Witness ==
    /\ pc = "trailed_again" /\ ~cfg.dry_run
    /\ Len(positions) = 2
    /\ \A i \in DOMAIN positions :
          positions[i].sl = RecomputedStop(positions[i], symbol_info_tick)

-----------------------------------------------------------------------------
(* Results of order requests (Spec).                                       *)

\* The return code that means success for the operation the request went to.
IsSuccess(q) ==
    \/ q.func = "order_send" /\ q.retcode = "TRADE_RETCODE_DONE"
    \/ q.func = "order_check" /\ q.retcode = "0"

\* Requests are only added to those of the attempt, or dropped all together
\* when the next attempt starts; none is added after a failed one.
C13_Step ==
    /\ \/ reqs' = << >>
       \/ /\ Len(reqs') >= Len(reqs)
          /\ \A k \in DOMAIN reqs : reqs'[k] = reqs[k]
    /\ (\E k \in DOMAIN reqs : ~IsSuccess(reqs[k])) =>
          (reqs' = reqs \/ reqs' = << >>)

\* C13: every order request (opening deal, closing deal, stop-loss
\* modification) whose result carries a non-success return code raises a
\* collaborator response error carrying the comment of the result, success
\* being TRADE_RETCODE_DONE for a sent order and 0 for a dry-run check; no
\* further request is submitted in that attempt after such a failure.
C13_FailedRequest ==
    /\ [](\A k \in DOMAIN reqs :
            /\ (IsOpening(reqs[k]) \/ IsClosing(reqs[k]) \/ IsStopUpdate(reqs[k]))
            /\ reqs[k].func = (IF cfg.dry_run THEN "order_check" ELSE "order_send")
            /\ IF IsSuccess(reqs[k])
               THEN reqs[k].raised = None
               ELSE /\ reqs[k].raised = reqs[k].comment
                    /\ reqs[k].comment # None
                    /\ k = Len(reqs)
                    /\ pc \in {"mt5error", "raised"}
                    /\ error = "Mt5ResponseError")
    /\ [][C13_Step]_vars

\* A dry-run check of a closing deal answered with TRADE_RETCODE_DONE: the
\* error is raised and the other position is left without a request.
C13_Witness ==
    /\ reqs # << >>
    /\ IsClosing(reqs[Len(reqs)])
    /\ reqs[Len(reqs)].func = "order_check"
    /\ reqs[Len(reqs)].retcode = "TRADE_RETCODE_DONE"
    /\ Len(reqs) < Len(positions)
    /\ error = "Mt5ResponseError"

-----------------------------------------------------------------------------
(* calculate_volume_by_pl (BetSpec): the call in bet_call, its result in   *)
(* bet_volume.                                                             *)

\* The deals that take part: buy and sell deals with an entry flag.
Participating ==
    SelectSeq(bet_call.history_deals,
              LAMBDA d : d.entry # 0 /\ d.type \in {"BUY", "SELL"})

\* The profits of the participating deals, oldest first.
Profits == [i \in 1..Len(Participating) |-> Participating[i].profit]

\* The volume of the last participating deal.
LastVolume == Participating[Len(Participating)].volume

\* The outcome of the last trade, of a history with a participating deal.
Outcome == WonLast(Profits, bs_strict)

\* A call that returned on a history with a determined outcome.
Determined == bpc = "called" /\ Participating # << >> /\ Outcome # None

\* C14: for a determined outcome of the last trade, calculate_volume_by_pl
\* returns, with Martingale, the unit volume after a win and twice the last
\* volume after a loss; with Paroli, twice the last volume after a win and
\* the unit volume after a loss; with d'Alembert, the unit volume after a win
\* and the last volume plus the unit volume after a loss; with Constant, the
\* unit volume in both cases.
C14_Table ==
    Determined =>
       LET unit_volume_ == bet_call.unit_volume IN
       /\ bs_strategy = "Martingale" =>
             bet_volume = (IF Outcome = "won" THEN unit_volume_ ELSE 2 * LastVolume)
       /\ bs_strategy = "Paroli" =>
             bet_volume = (IF Outcome = "won" THEN 2 * LastVolume ELSE unit_volume_)
       /\ bs_strategy = "d'Alembert" =>
             bet_volume = (IF Outcome = "won" THEN unit_volume_
                           ELSE LastVolume + unit_volume_)
       /\ bs_strategy = "Constant" => bet_volume = unit_volume_

\* Martingale after a loss on a last volume of 3, the unit volume being 1.
C14_Witness ==
    /\ Determined /\ bs_strategy = "Martingale" /\ Outcome = "lost"
    /\ LastVolume = 3 /\ bet_call.unit_volume = 1 /\ bet_volume = 6

\* C15: with Pyramid, after a win the next volume is the last volume when it
\* is below the unit volume and the last volume less the unit volume when it
\* is not; after a loss it is the last volume plus the unit volume.
C15_Pyramid ==
    (Determined /\ bs_strategy = "Pyramid") =>
       IF Outcome = "won"
       THEN /\ LastVolume < bet_call.unit_volume => bet_volume = LastVolume
            /\ LastVolume >= bet_call.unit_volume =>
                  bet_volume = LastVolume - bet_call.unit_volume
       ELSE bet_volume = LastVolume + bet_call.unit_volume

\* A win on a last volume equal to the unit volume: nothing is left.
C15_Witness ==
    /\ Determined /\ bs_strategy = "Pyramid" /\ Outcome = "won"
    /\ LastVolume = 2 /\ bet_call.unit_volume = 2 /\ bet_volume = 0

\* A call with Oscar's grind that returned on a history whose all-time-high
\* flag is true.
OscarAtHigh ==
    /\ bpc = "called" /\ bs_strategy = "Oscar's grind"
    /\ Participating # << >> /\ AllTimeHigh(Profits)

\* init_volume, or unit_volume when init_volume is unset or zero.
ResetVolume ==
    IF bet_call.init_volume # 0 THEN bet_call.init_volume ELSE bet_call.unit_volume

\* C16 as stated: with Oscar's grind and the all-time-high flag true, the
\* result is init_volume (or unit_volume), whatever the outcome of the last
\* trade is: won, lost or undetermined.
C16_Original == OscarAtHigh => bet_volume = ResetVolume

\* C16: with Oscar's grind and the all-time-high flag true, the result is
\* init_volume (or unit_volume when init_volume is unset or zero) when the
\* outcome of the last trade is determined, won or lost; when it is
\* undetermined the result is the first non-zero of the last volume,
\* init_volume and unit_volume.
C16_ResetAtHigh ==
    OscarAtHigh =>
       IF Outcome # None
       THEN bet_volume = ResetVolume
       ELSE bet_volume = (IF LastVolume # 0 THEN LastVolume ELSE ResetVolume)

\* A win at an all-time high after a trade of volume 2: back to init_volume.
C16_Witness ==
    /\ OscarAtHigh /\ Outcome = "won" /\ Len(Participating) > 1
    /\ LastVolume = 2 /\ bet_call.init_volume = 3 /\ bet_volume = 3

\* C17 as stated: with Oscar's grind, after a losing last trade the result is
\* the last volume unchanged, for every history whose last participating
\* profit is negative, a history of a single losing deal included; after a
\* winning last trade that is not at an all-time high it is the last volume
\* plus the unit volume.
C17_Original ==
    (Determined /\ bs_strategy = "Oscar's grind") =>
       /\ Profits[Len(Profits)] < 0 => bet_volume = LastVolume
       /\ (Outcome = "won" /\ ~AllTimeHigh(Profits)) =>
             bet_volume = LastVolume + bet_call.unit_volume

\* The sum of the positive profits of pl[lo..hi], and of the absolute values
\* of the others.
RECURSIVE PositiveSum(_, _, _)
PositiveSum(pl, lo, hi) ==
    IF lo > hi THEN 0
    ELSE (IF pl[lo] > 0 THEN pl[lo] ELSE 0) + PositiveSum(pl, lo + 1, hi)

RECURSIVE LossSum(_, _, _)
LossSum(pl, lo, hi) ==
    IF lo > hi THEN 0
    ELSE (IF pl[lo] > 0 THEN 0 ELSE Abs(pl[lo])) + LossSum(pl, lo + 1, hi)

\* Where the walk from the profit before the last one to the oldest stops:
\* the newest positive profit that has a loss between it and the last one;
\* 0 when the walk reaches the oldest profit.
WalkStop(pl) ==
    LET stops == { j \in 1..(Len(pl) - 1) :
                     /\ pl[j] > 0
                     /\ \E k \in (j + 1)..(Len(pl) - 1) : pl[k] < 0 }
    IN  IF stops = {} THEN 0 ELSE CHOOSE j \in stops : \A k \in stops : k <= j

\* latest_profit and latest_loss of the walk, the last profit included.
LatestProfit(pl) == PositiveSum(pl, WalkStop(pl) + 1, Len(pl))
LatestLoss(pl) == LossSum(pl, WalkStop(pl) + 1, Len(pl) - 1)

\* The outcome of the strict determination on a positive last profit.
StrictOutcome(pl) == IF LatestProfit(pl) > LatestLoss(pl) THEN "won" ELSE None

\* C18: with strict determination and a positive last profit, the profits
\* before the last one are walked from newest to oldest; positive profits met
\* before any loss has been accumulated add to latest_profit, non-positive
\* ones add their absolute value to latest_loss, and the walk stops at the
\* first positive profit met after a loss has been accumulated; the outcome
\* is won iff latest_profit > latest_loss and undetermined otherwise, never
\* lost, and the returned volume is the one of that outcome.
C18_StrictWalk ==
    (/\ bpc = "called" /\ bs_strict
     /\ Participating # << >> /\ Profits[Len(Profits)] > 0) =>
        /\ Outcome = StrictOutcome(Profits)
        /\ Outcome # "lost"
        /\ StrictWalk(Profits, Len(Profits) - 1, << Profits[Len(Profits)], 0 >>)
              = << LatestProfit(Profits), LatestLoss(Profits) >>
        /\ bet_volume = CalculateVolume(bs_strategy, bet_call.unit_volume,
                                        bet_call.init_volume, LastVolume,
                                        StrictOutcome(Profits),
                                        AllTimeHigh(Profits))

\* Profits [-5, +3, +2]: 5 > 5 is false, the outcome is undetermined and the
\* last volume is returned.
C18_Witness ==
    /\ bpc = "called" /\ bs_strict /\ bs_strategy = "Martingale"
    /\ Profits = << -5, 3, 2 >>
    /\ LatestProfit(Profits) = 5 /\ LatestLoss(Profits) = 5
    /\ bet_volume = LastVolume /\ bet_volume # bet_call.unit_volume

\* The outcome of the last trade is undetermined: the last profit is 0, or
\* the determination is strict and the latest profit does not exceed the
\* latest loss.
Undetermined ==
    \/ Profits[Len(Profits)] = 0
    \/ /\ bs_strict
       /\ Profits[Len(Profits)] > 0
       /\ LatestProfit(Profits) <= LatestLoss(Profits)

\* C19: when the history holds no buy or sell deal with an entry flag, or the
\* outcome of the last trade is undetermined, calculate_volume_by_pl returns
\* the first non-zero of the volume of the last participating deal,
\* init_volume and unit_volume, whatever the strategy.
C19_Fallback ==
    bpc = "called" =>
       /\ Participating = << >> =>
             bet_volume = (IF bet_call.init_volume # 0 THEN bet_call.init_volume
                           ELSE bet_call.unit_volume)
       /\ Participating # << >> =>
             /\ Undetermined <=> Outcome = None
             /\ Undetermined =>
                   bet_volume = (IF LastVolume # 0 THEN LastVolume
                                 ELSE IF bet_call.init_volume # 0
                                      THEN bet_call.init_volume
                                      ELSE bet_call.unit_volume)

\* Paroli on a history whose only buy or sell exit made no profit: the
\* volume of that deal, not init_volume.
C19_Witness ==
    /\ bpc = "called" /\ bs_strategy = "Paroli"
    /\ Len(bet_call.history_deals) > Len(Participating)
    /\ Participating # << >> /\ Profits[Len(Profits)] = 0
    /\ bet_call.init_volume = 3 /\ bet_volume = 2

-----------------------------------------------------------------------------
(* Construction of a BettingSystem (BetSpec).                              *)

\* A name in lower case without its apostrophes and spaces.
RECURSIVE Squeeze(_)
Squeeze(name) ==
    IF name = << >> THEN << >>
    ELSE IF Head(name) = "'" \/ Head(name) = " " THEN Squeeze(Tail(name))
    ELSE << Lower(Head(name)) >> \o Squeeze(Tail(name))

\* The names of the six strategies that the given name equals when both are
\* squeezed.
CanonicalNames ==
    { s \in {"Martingale", "Paroli", "d'Alembert", "Pyramid", "Oscar's grind",
              "Constant"} : Squeeze(strategy_arg) = Squeeze(Spelling(s)) }

\* Once constructed, the object keeps its strategy, during calls and between
\* them, and a call ends with a volume.
C20_Step ==
    bpc # "new" =>
       /\ bs_strategy' = bs_strategy
       /\ strategy_arg' = strategy_arg
       /\ bpc' \in {"ready", "called"}

\* C20: the constructor accepts a strategy name iff, in lower case and
\* without apostrophes and spaces, it equals one of the six names treated the
\* same way; the stored strategy is then that name of the six, no call of
\* calculate_volume_by_pl changes it or reaches the invalid-strategy error of
\* the dispatch; a name that matches none makes the constructor fail with
\* the invalid-strategy error.
C20_Construction ==
    /\ [](/\ bpc = "raised_init" =>
                (CanonicalNames = {} /\ error = "ValueError" /\ bs_strategy = None)
          /\ bpc = "ready" => (CanonicalNames = {bs_strategy} /\ error = None)
          /\ bpc = "called" => error = None
          /\ bpc # "raised_dispatch")
    /\ [][C20_Step]_vars

\* A call on an object constructed from the name "pyra mid".
C20_Witness ==
    /\ Determined
    /\ strategy_arg = << "p", "y", "r", "a", " ", "m", "i", "d" >>
    /\ bs_strategy = "Pyramid"

-----------------------------------------------------------------------------
(* Further properties of calculate_volume_by_pl (BetSpec).                 *)

\* C21 as stated: for a strictly positive unit volume and a history whose
\* participating deals all have a strictly positive volume, the volume that
\* calculate_volume_by_pl returns is strictly positive, for every strategy,
\* every profit sequence and both strict settings.
C21_Original ==
    (/\ bpc = "called"
     /\ bet_call.unit_volume > 0
     /\ \A i \in DOMAIN Participating : Participating[i].volume > 0) =>
        bet_volume > 0

-----------------------------------------------------------------------------
(* Order limits (LimitSpec): prices are in points, the limits in           *)
(* hundredths of a point.                                                  *)

\* A call of _determine_order_limits returned the limits of a side.
Limited == pc = "limited" /\ act \in Sides

\* C22: on one tick the limits of the two sides mirror each other: for long
\* the stop-loss is ask x (1 - stop_loss_ratio) and the take-profit is
\* ask x (1 + take_profit_ratio), for short the stop-loss is
\* bid x (1 + stop_loss_ratio) and the take-profit is
\* bid x (1 - take_profit_ratio); with ratios strictly between 0 and 1 a long
\* plan has sl < ask < tp and a short plan has tp < bid < sl.
C22_MirrorLimits ==
    Limited =>
       LET ask == symbol_info_tick.ask
           bid == symbol_info_tick.bid
           sl_pct == cfg.stop_loss_limit_pct
           tp_pct == cfg.take_profit_limit_pct
           mirror == OrderLimits(IF act = "long" THEN "short" ELSE "long",
                                 symbol_info_tick)
       IN  /\ act = "long" =>
                /\ order_limits.sl = ask * (100 - sl_pct)
                /\ order_limits.tp = ask * (100 + tp_pct)
                /\ order_limits.sl < 100 * ask /\ 100 * ask < order_limits.tp
                /\ (100 * ask - order_limits.sl) * bid = (mirror.sl - 100 * bid) * ask
                /\ (order_limits.tp - 100 * ask) * bid = (100 * bid - mirror.tp) * ask
           /\ act = "short" =>
                /\ order_limits.sl = bid * (100 + sl_pct)
                /\ order_limits.tp = bid * (100 - tp_pct)
                /\ order_limits.tp < 100 * bid /\ 100 * bid < order_limits.sl

\* The short plan on the tick bid 99, ask 101 with a stop-loss ratio of 0.5
\* and a take-profit ratio of 0.01.
C22_Witness ==
    /\ Limited /\ act = "short"
    /\ symbol_info_tick = [bid |-> 99, ask |-> 101]
    /\ cfg.stop_loss_limit_pct = 50 /\ cfg.take_profit_limit_pct = 1
    /\ order_limits = [sl |-> 14850, tp |-> 9801]

-----------------------------------------------------------------------------
(* The all-time-high flag (BetSpec).                                       *)

\* The cumulative profit after the k-th participating deal.
Cumulative(k) == PositiveSum(Profits, 1, k) - LossSum(Profits, 1, k)

\* The cumulative profit after the last deal is the maximum over all
\* prefixes.
MaximumAtLast ==
    \A k \in 1..Len(Profits) : Cumulative(k) <= Cumulative(Len(Profits))

\* The cumulative profit after the last deal exceeds the one after every
\* earlier deal.
NewHighAtLast ==
    \A k \in 1..(Len(Profits) - 1) : Cumulative(k) < Cumulative(Len(Profits))

\* What Oscar's grind returns for a determined outcome, given the flag.
OscarVolume(flag) ==
    IF flag THEN ResetVolume
    ELSE IF Outcome = "won" THEN LastVolume + bet_call.unit_volume
    ELSE LastVolume

\* C26 as stated: the all-time-high flag is true iff the cumulative profit
\* after the last participating deal is the maximum over all prefixes.
C26_Original ==
    (bpc = "called" /\ Participating # << >>) =>
       /\ AllTimeHigh(Profits) <=> MaximumAtLast
       /\ (Outcome # None /\ bs_strategy = "Oscar's grind") =>
             bet_volume = OscarVolume(MaximumAtLast)

\* C26: the all-time-high flag is true iff the cumulative profit after the
\* last participating deal is strictly greater than the cumulative profit
\* after every earlier one, the first index of the maximum being the last
\* index; a maximum that an earlier prefix reached as well gives false.
C26_NewHigh ==
    (bpc = "called" /\ Participating # << >>) =>
       /\ AllTimeHigh(Profits) <=> NewHighAtLast
       /\ (Outcome # None /\ bs_strategy = "Oscar's grind") =>
             bet_volume = OscarVolume(NewHighAtLast)

\* Profits [+3, -2, +2] without strict determination: the last cumulative
\* profit equals the first, the flag is false and Oscar's grind adds a unit.
C26_Witness ==
    /\ bpc = "called" /\ bs_strategy = "Oscar's grind" /\ ~bs_strict
    /\ Profits = << 3, -2, 2 >>
    /\ MaximumAtLast /\ ~NewHighAtLast
    /\ bet_volume = LastVolume + bet_call.unit_volume
    /\ bet_volume # ResetVolume

\* C27: after every snapshot refresh unit_volume is a whole multiple of the
\* symbol's minimum tradable volume, with a fixed configured volume as well
\* as with a unit margin ratio, and unit_margin equals min_ask_margin x
\* (unit_volume / minimum volume).  Stated on the states that follow
\* _refresh_unit_margin_and_volume: after refresh_mt5_caches and after the
\* account refresh of is_margin_lack.
UnitRefreshed == pc \in {"trend", "lack_positions"}

C27_Original ==
    UnitRefreshed =>
        /\ unit_volume % symbol_info.volume_min = 0
        /\ unit_margin * symbol_info.volume_min = min_margins.ask * unit_volume

\* C30: a trader constructed in dry-run mode hands every order request
\* (opening deal, closing deal, stop-loss modification) to the validate-only
\* check operation and never to the send operation, over every cycle and
\* retry; a trader not in dry-run mode never uses the check operation.  The
\* mode is fixed by the constructor.
C30_DryRun ==
    /\ [](\A k \in DOMAIN reqs :
            /\ cfg.dry_run => reqs[k].func = "order_check"
            /\ ~cfg.dry_run => reqs[k].func = "order_send")
    /\ [][cfg'.dry_run = cfg.dry_run]_vars

\* A dry run, on the retry of the second symbol: the closing deals and the
\* opening deal that follows them all went to the check operation.
C30_Witness ==
    /\ cfg.dry_run
    /\ r = retry_count
    /\ si = 2
    /\ \E i, j \in DOMAIN reqs :
          /\ IsClosing(reqs[i]) /\ reqs[i].func = "order_check"
          /\ IsOpening(reqs[j]) /\ reqs[j].func = "order_check"

\* The requests a trailing-stop update has just added: stop-loss
\* modifications of positions read by the update, each carrying the stop the
\* update computes for that position from the tick it read.
TrailedOnly ==
    /\ Len(reqs') >= Len(reqs)
    /\ \A k \in DOMAIN reqs :  reqs'[k] = reqs[k]
    /\ \A k \in (DOMAIN reqs') \ (DOMAIN reqs) :
          /\ IsStopUpdate(reqs'[k])
          /\ reqs'[k].position \in DOMAIN positions'
          /\ reqs'[k].sl =
                100 * TrailingSl(positions'[reqs'[k].position], symbol_info_tick')
          /\ reqs'[k].sl # 0

\* design_and_place_order(act=None): with a dominant side the trailing-stop
\* update runs (it reads the positions again, or fails doing so), without
\* one nothing is read or submitted and the cycle returns.
C29_Step ==
    (pc = "place" /\ act = None) =>
        IF position_side # None
        THEN /\ pc' \in {"returned", "mt5error", "raised"}
             /\ pc' = "returned" => (error' = None /\ new_volume' = 0)
             /\ TrailedOnly
        ELSE /\ pc' = "returned"
             /\ reqs' = reqs
             /\ UNCHANGED << positions, position_side, symbol_info_tick >>

\* C29: in every cycle whose decided action is none while a dominant side is
\* held (hold and the halted verdicts few ticks, no fund, over-spread, low
\* volume) the trailing-stop update runs, so the only order requests of the
\* cycle are stop-loss modifications of existing positions, never an opening
\* or closing deal; with no dominant side and action none the cycle submits
\* no order request at all.
C29_NoneAction ==
    /\ []((act = None /\ pc \in {"place", "returned", "mt5error", "raised"}) =>
            /\ \A k \in DOMAIN reqs : IsStopUpdate(reqs[k])
            /\ pc = "place" => reqs = << >>)
    /\ [][C29_Step]_vars

\* A cycle halted for its spread while a side is held, which moved a stop.
C29_Witness ==
    /\ pc = "returned"
    /\ act = None
    /\ gate = 6
    /\ position_side # None
    /\ reqs # << >>
    /\ IsStopUpdate(reqs[Len(reqs)])
    /\ reqs[Len(reqs)].ok

\* The decided action is a side and the dominant side held is the other one.
SwitchingSide == act \in Sides /\ position_side # None /\ position_side # act

\* The closing deal of the position with ticket k, as read by close_positions.
ClosesPosition(q, k) ==
    /\ IsClosing(q)
    /\ q.position = k
    /\ k \in DOMAIN positions'
    /\ q.type = (IF positions'[k].type = "BUY" THEN "SELL" ELSE "BUY")
    /\ q.volume = positions'[k].volume

\* The first part of design_and_place_order when switching side submits
\* closing deals in the order of the positions and reaches the opening part
\* only with one successful closing deal for every position; the opening
\* order is the one request that part adds, and no other step adds one.
C25_Step ==
    /\ (pc = "place" /\ SwitchingSide) =>
          /\ reqs = << >>
          /\ \A k \in DOMAIN reqs' : ClosesPosition(reqs'[k], k)
          /\ pc' \in {"open", "mt5error", "raised"}
          /\ pc' = "open" =>
                /\ Len(reqs') = Len(positions')
                /\ \A k \in DOMAIN reqs' : reqs'[k].ok
                /\ act' = act
    /\ pc = "open" =>
          /\ \A k \in DOMAIN reqs : reqs[k].ok /\ ~IsOpening(reqs[k])
          /\ \/ reqs' = reqs
             \/ /\ reqs' = Append(reqs, reqs'[Len(reqs')])
                /\ IsOpening(reqs'[Len(reqs')])
                /\ SideOfRequest(reqs'[Len(reqs')]) = act
    /\ pc # "open" =>
          \A k \in DOMAIN reqs' :
             IsOpening(reqs'[k]) => (k \in DOMAIN reqs /\ reqs[k] = reqs'[k])

\* C25: in a cycle whose decided action is the side opposite to the held
\* dominant side, a closing deal (opposite order type, same volume, same
\* ticket) is submitted for every open position of the symbol before the
\* opening order, and the opening order is submitted only if every one of
\* those closing deals succeeded.
C25_CloseThenOpen ==
    /\ [](\A j \in DOMAIN reqs :
            IsOpening(reqs[j]) =>
               /\ j = Len(reqs)
               /\ \A k \in 1..(j - 1) : reqs[k].ok)
    /\ [][C25_Step]_vars

\* Two positions closed, then the opening order for the other side accepted.
C25_Witness ==
    /\ pc = "returned"
    /\ gate = 10
    /\ Len(reqs) = 3
    /\ IsClosing(reqs[1]) /\ IsClosing(reqs[2])
    /\ reqs[1].type = reqs[2].type
    /\ IsOpening(reqs[3])
    /\ reqs[3].type = reqs[1].type
    /\ reqs[3].ok

\* A decision has been returned by determine_sig_state in this attempt.
Decided == gate # 0 /\ pc \in {"place", "open", "returned", "mt5error", "raised", "crashed"}

\* The incremental-volume branch of design_and_place_order is about to be
\* taken: the opening part starts with the decided side already dominant.
IncrementalBranch == pc = "open" /\ position_side # None /\ act = position_side

\* C28 as stated: a decision cycle never decides an action equal to the
\* dominant side currently held, so the incremental-volume branch of order
\* placement is never taken from a decision cycle.
C28_Original ==
    /\ (pc = "place" /\ position_side # None) => act # position_side
    /\ ~IncrementalBranch

\* C28, amended: the decided action never equals the dominant side held when
\* determine_sig_state started (the side handed to the signal detector and
\* tested by the closing and holding branches); the incremental-volume
\* branch is taken only when the positions read again later in the cycle
\* show a dominant side other than that one.
C28_NotTheSideSeen ==
    /\ (Decided /\ seen # None) => act # seen
    /\ IncrementalBranch => (gate \in {10, 11} /\ position_side # seen)

\* A cycle that started with a dominant side, decided the other side and
\* finds that side dominant when the opening part starts.
C28_Witness == IncrementalBranch /\ seen # None /\ gate = 10

\* The tick window fetched in this attempt is empty.
EmptyWindow == rows = 0

C24_Step ==
    (pc = "ticks" /\ rows' = 0) =>
        /\ sig_act' = None
        /\ gate' = 1
        /\ act' = None
        /\ state' = "FEW TICKS"
        /\ pc' = "place"
        /\ error' = None

Refreshed ==
    pc \in {"trend", "ticks", "lack_account", "lack_positions", "low_volume",
            "place", "open", "returned"}

\* unit_volume, unit_margin and avail_volume as functions of the constructor
\* arguments and of the snapshots of the account, the symbol and the margins.
UnitVolumeFrom(acc, sym, mm) ==
    IF cfg.unit_margin_pct # 0
    THEN sym.volume_min * ((acc.equity * cfg.unit_margin_pct) \div (100 * mm.ask))
    ELSE cfg.unit_volume

UnitMarginFrom(acc, sym, mm) ==
    IF cfg.unit_margin_pct # 0
    THEN mm.ask * ((acc.equity * cfg.unit_margin_pct) \div (100 * mm.ask))
    ELSE mm.ask * (cfg.unit_volume \div sym.volume_min)

\* Every cached field a decision reads is the snapshot of this cycle and of
\* this symbol, or a function of such snapshots.
FreshSnapshots ==
    /\ symbol = Symbols[si]
    /\ symbol_info = SymbolInfoOf(symbol)
    /\ min_margins = MinMarginsOf(symbol)
    /\ history_deals = DealHistoryOf(symbol)
    /\ account_info \in AccountInfos
    /\ positions \in PositionTuples
    /\ position_volumes = PositionVolumesOf(positions)
    /\ position_side = PositionSideOf(positions)
    /\ unit_volume = UnitVolumeFrom(account_info, symbol_info, min_margins)
    /\ unit_margin = UnitMarginFrom(account_info, symbol_info, min_margins)
    /\ avail_volume = AvailVolumeOf(account_info, symbol_info, min_margins)

\* Nothing of an earlier attempt is left in the fields of a decision when an
\* attempt starts.
NothingDecided ==
    /\ trend_side = None /\ rows = -1 /\ sig_act = None /\ seen = None
    /\ gate = 0 /\ act = None /\ state = None /\ new_volume = 0
    /\ reqs = << >>

\* The branch of the if-chain taken after the first four, from the snapshots
\* is_margin_lack has read, the tick, the low-volume test and the signal.
LaterGate ==
    IF IsMarginLack(positions, account_info, unit_margin, unit_volume) THEN 5
    ELSE IF HasOverSpread(symbol_info_tick) THEN 6
    ELSE IF gate = 7 /\ sig_act # "closing" THEN 7
    ELSE LastGate(position_side, sig_act, trend_side)

\* The verdict is the one the if-chain gives on the snapshots of the cycle.
DecisionFromSnapshots ==
    /\ act = ActOf(gate, sig_act)
    /\ state = StateOf(gate)
    /\ sig_act \in DetectActs(rows, seen)
    /\ IF gate <= 4
       THEN /\ seen = position_side
            /\ gate = FirstGate(rows, seen, sig_act, trend_side, account_info)
       ELSE /\ ~HasFewTicks(rows)
            /\ ~ForcedClosing(seen, sig_act, trend_side)
            /\ ~Holding(seen, sig_act)
            /\ gate = LaterGate

\* The volume the cycle reports is the one order placement computes from the
\* snapshots: the opening quantity when it is positive, else 0.
VolumeFromSnapshots ==
    new_volume =
        (IF act \in Sides /\ OpeningQuantity(act) > 0
         THEN OpeningQuantity(act) ELSE 0)

\* C23: the action and the volume decided in a cycle for a symbol are a
\* function only of the snapshots read in that cycle (account, symbol, tick,
\* positions, margins, deals, tick window, rates), whatever cycles ran before
\* for the same or other symbols, successful or failed: in every reachable
\* state the cached fields are this cycle's snapshots of this symbol or
\* functions of them, an attempt starts with nothing decided, and the action
\* and the volume are the values the if-chain and the order sizing give on
\* those fields.
C23_FromSnapshots ==
    /\ Refreshed => FreshSnapshots
    /\ pc \in {"account", "symbol_info", "tick", "positions", "margin", "deals"}
          => NothingDecided
    /\ pc = "place" => DecisionFromSnapshots
    /\ pc = "returned" => (act = ActOf(gate, sig_act) /\ VolumeFromSnapshots)

\* The second symbol, on the retry after a failed attempt and after the
\* cycle of the first symbol: an order of the volume its own snapshots give.
C23_Witness ==
    /\ pc = "returned"
    /\ si = 2
    /\ r = retry_count
    /\ warned = retry_count
    /\ act \in Sides
    /\ new_volume > 0
    /\ cfg.unit_margin_pct # 0

=============================================================================
